---- MODULE Spec2Model ----
(***************************************************************************)
(* xDSnap: probing of in-container HTTP tooling (nomad/exec_strategy.go)   *)
(* and the capture orchestration (pkg/cmd snapshot code) as state machines.*)
(***************************************************************************)
EXTENDS Integers, Sequences, FiniteSets, TLC

(***************************************************************************)
(* Bounds of the model.                                                    *)
(***************************************************************************)
\* longest taskOrder handed to ResolveExecStrategy
MaxOrderLen == 2
\* longest configured endpoint list (the empty list selects DefaultEndpoints)
MaxEndpoints == 2
MaxFrames == 1
\* most chunks of a chunked body handed to decodeChunked
MaxChunks == 2
\* longest list of extra log tasks handed to buildTaskOrder
MaxExtras == 2
\* ResolveExecStrategy calls of one caller
MaxResolveCalls == 2
\* largest --repeat, and allocations of one capture command
MaxRepeat == 2
MaxAllocs == 2
\* SIGINT / SIGTERM deliveries to the process
MaxSignals == 1

(***************************************************************************)
(* Program constants.                                                      *)
(***************************************************************************)
\* HTTPMethod iota values
MethodCurl == 0
MethodWget == 1
MethodPython3 == 2
MethodNode == 3
MethodBashTCP == 4
\* allocID[:8]
ShortIDLen == 8
\* a Nomad allocation ID is a UUID
UUIDLen == 36
\* exit status of the mock for a command that is not found
ExitNotFound == 127
\* const maxRetries in fetchEnvoyEndpoint
maxRetries == 3

Methods == {MethodCurl, MethodWget, MethodPython3, MethodNode, MethodBashTCP}

\* task names of the test fixtures: the sidecar and its sibling
SidecarName == "connect-proxy-web"
PrimaryName == "web"
Tasks == {SidecarName, PrimaryName}

\* lengths of allocation IDs: one shorter than the short-ID prefix, one UUID
AllocIDLens == {ShortIDLen - 1, UUIDLen}

probeCommands ==
    << [Method |-> MethodCurl,    Command |-> <<"curl", "--version">>],
       [Method |-> MethodWget,    Command |-> <<"wget", "--version">>],
       [Method |-> MethodPython3, Command |-> <<"python3", "--version">>],
       [Method |-> MethodNode,    Command |-> <<"node", "--version">>],
       [Method |-> MethodBashTCP, Command |-> <<"bash", "-c", "echo ok">>] >>

\* what one ExecuteCommandWithStderr call returns: (exitCode, err != nil)
RespOK == [exitCode |-> 0, err |-> FALSE]
RespExit1 == [exitCode |-> 1, err |-> FALSE]
RespErrZero == [exitCode |-> 0, err |-> TRUE]
RespNotFound == [exitCode |-> ExitNotFound, err |-> TRUE]
RespChoices == {RespOK, RespExit1, RespErrZero, RespNotFound}

VARIABLES
    \* -- environment and inputs of the probing layer
    execResponses,  \* svc: task -> method -> response of that tool's probe command
    allocIDLen,     \* len(allocID)
    taskOrder,      \* taskOrder argument of ResolveExecStrategy
    \* -- ProbeHTTPCapability called on its own
    pTask,          \* task argument
    pResult,        \* returned (HTTPMethod, bool), with the commands it executed
    \* -- ResolveExecStrategy
    rpc,            \* "idle", "loop", "returned"
    rIdx,           \* position of the range loop in taskOrder (1-based)
    tried,          \* var tried []string
    rResult,        \* returned (*ExecStrategy, error), or the panic
    \* -- every ExecuteCommandWithStderr call made, in order, and the
    \*    (task, method) pairs whose probe command succeeded
    execLog,
    probeOK,
    \* -- CaptureSnapshot
    config,         \* the SnapshotConfig passed in, with impl naming the snapshot source modelled
    endpoints,      \* config.Endpoints of the callee's copy
    cpc,            \* position of CaptureSnapshot
    ret,            \* its return value: "none" while running, "nil", an error, "panic"
    tempDir,        \* "none", "exists", "removed"
    files,          \* the files of tempDir: name -> content
    archive,        \* whether createTarGz made the archive, and the files it read
    epIdx,          \* position of the endpoint loop
    call,           \* the running (or last) setEnvoyLogLevel / fetchEnvoyEndpoint call
    events,         \* the calls of setEnvoyLogLevel, captureTcpdump, fetchEnvoyEndpoint and
                    \* createTarGz, in call order, and the return of the verbosity raise
    fetched,        \* the fetchEnvoyEndpoint calls that returned, with their outcome
    pcap,           \* outcome of captureTcpdump
    tasksToLog,     \* tasksToLog
    logResults,     \* number of signals buffered in the logResults channel
    joined,         \* signals received by the join loop
    \* -- the log streams of one capture
    unit,           \* per entry of tasksToLog: the goroutine started for it by CaptureSnapshot
    sub,            \* per entry of tasksToLog: its two FetchTaskLogs goroutines
    \* -- decodeChunked called on its own
    chunks,         \* the pieces the input was put together from
    data,           \* data argument
    decoded,        \* returned bytes
    \* -- EnvoyAdminGET through an ExecStrategy
    strategy,       \* *ExecStrategy argument
    mockResp,       \* response of the exec call: exit code, stdout, error
    getResult,      \* returned ([]byte, error)
    \* -- BuildGETCommand / BuildPOSTCommand
    bArgs,          \* (method, port, path)
    getCmd,         \* returned []string of BuildGETCommand
    postCmd,        \* returned []string of BuildPOSTCommand
    \* -- buildTaskOrder
    btoArgs,        \* (sidecar, taskName, extraLogs)
    btoResult,      \* returned []string
    \* -- a caller of ResolveExecStrategy that calls it more than once
    rCalls,         \* calls that have returned before the running one
    rFirst,         \* what the first call returned
    rLogStart,      \* len of execLog when the running call began
    \* -- the capture command (Run of NewCaptureCommand)
    opts,           \* flags --repeat, --duration, --enable-trace and allocsToCapture
    lpc,            \* position of Run
    captures,       \* captures
    startTime,      \* "zero" or "set"
    elapsed,        \* time.Since(startTime) >= duration
    aIdx,           \* position of the range loop over allocsToCapture
    snapSkip,       \* SkipLogLevelReset of the running CaptureSnapshot call
    lastLevel,      \* per allocation: level of the last /logging request sent to it
    \* -- FindConnectAllocationsByService
    cluster,        \* Consul catalog and health, Nomad allocations
    findArgs,       \* (namespace, serviceName)
    found,          \* returned ([]AllocationInfo, error)
    \* -- two CaptureSnapshot calls of one process, each with one FetchTaskLogs call
    pair,           \* per call: AllocID, OutputDir, position, tempDir
    disk,           \* path -> the call that created or last wrote it
    nextDir,        \* the random suffix os.MkdirTemp takes next
    fetch,          \* per call: ctx, closes of cancel, the two goroutines, sigCh, the loop
    process,        \* "running" or "panicked"
    sigs            \* SIGINT / SIGTERM delivered to the process

probeVars == <<execResponses, allocIDLen, taskOrder, pTask, pResult, rpc, rIdx, tried, rResult>>
execVars == <<execLog, probeOK>>
orchVars == <<config, endpoints, cpc, ret, tempDir, files, archive, epIdx, call, events, fetched, pcap,
              tasksToLog, logResults, joined>>
logVars == <<unit, sub>>
fnVars == <<chunks, data, decoded, strategy, mockResp, getResult, bArgs, getCmd, postCmd,
            btoArgs, btoResult>>
sessVars == <<rCalls, rFirst, rLogStart, opts, lpc, captures, startTime, elapsed, aIdx, snapSkip,
              lastLevel, cluster, findArgs, found>>
concVars == <<pair, disk, nextDir, fetch, process, sigs>>
vars == <<probeVars, execVars, orchVars, logVars, fnVars, sessVars, concVars>>

NoProbe == [Method |-> 0, ok |-> FALSE, probed |-> <<>>, called |-> FALSE]
NoResult == [status |-> "none", Task |-> "", Method |-> 0, tried |-> <<>>]

(***************************************************************************)
(* ProbeHTTPCapability: the range loop over probeCommands from index i.    *)
(* probed lists the methods whose probe command was executed.              *)
(***************************************************************************)
RECURSIVE ProbeFromIgnoreErr(_, _)
ProbeFromIgnoreErr(resp, i) ==
    IF i > Len(probeCommands)
    THEN [Method |-> 0, ok |-> FALSE, probed |-> <<>>, called |-> TRUE]
    ELSE LET probe == probeCommands[i]
             r == resp[probe.Method]
         IN IF r.exitCode = 0
            THEN [Method |-> probe.Method, ok |-> TRUE, probed |-> <<probe.Method>>, called |-> TRUE]
            ELSE LET rest == ProbeFromIgnoreErr(resp, i + 1)
                 IN [rest EXCEPT !.probed = <<probe.Method>> \o @]

RECURSIVE ProbeFromRunsAll(_, _)
ProbeFromRunsAll(resp, i) ==
    IF i > Len(probeCommands)
    THEN [Method |-> 0, ok |-> FALSE, probed |-> <<>>, called |-> TRUE]
    ELSE LET probe == probeCommands[i]
             r == resp[probe.Method]
             rest == ProbeFromRunsAll(resp, i + 1)
         IN IF ~r.err /\ r.exitCode = 0
            THEN [Method |-> probe.Method, ok |-> TRUE, probed |-> <<probe.Method>> \o rest.probed,
                  called |-> TRUE]
            ELSE [rest EXCEPT !.probed = <<probe.Method>> \o @]

RECURSIVE ProbeFrom(_, _)
ProbeFrom(resp, i) ==
    IF i > Len(probeCommands)
    THEN [Method |-> 0, ok |-> FALSE, probed |-> <<>>, called |-> TRUE]
    ELSE LET probe == probeCommands[i]
             r == resp[probe.Method]
         IN IF ~r.err /\ r.exitCode = 0
            THEN [Method |-> probe.Method, ok |-> TRUE, probed |-> <<probe.Method>>, called |-> TRUE]
            ELSE LET rest == ProbeFrom(resp, i + 1)
                 IN [rest EXCEPT !.probed = <<probe.Method>> \o @]

ProbeHTTPCapability(svc, task) == ProbeFrom(svc[task], 1)

\* the exec calls of one ProbeHTTPCapability call, as execLog entries
ProbeExecs(svc, task, p) ==
    [k \in 1..Len(p.probed) |->
        [task |-> task, cmd |-> probeCommands[p.probed[k] + 1].Command]]

\* the (task, method) pair a successful probe establishes
ProbeSuccess(task, p) == IF p.ok THEN {<<task, p.Method>>} ELSE {}

(***************************************************************************)
(* ProbeHTTPCapability as an operation of its own.                         *)
(***************************************************************************)
Probe ==
    /\ ~pResult.called
    /\ pTask \in Tasks
    /\ LET p == ProbeHTTPCapability(execResponses, pTask)
       IN /\ pResult' = p
          /\ execLog' = execLog \o ProbeExecs(execResponses, pTask, p)
          /\ probeOK' = probeOK \cup ProbeSuccess(pTask, p)
    /\ UNCHANGED <<concVars, sessVars, fnVars, execResponses, allocIDLen, taskOrder, pTask, rpc, rIdx, tried, rResult, orchVars, logVars>>

(***************************************************************************)
(* ResolveExecStrategy: one action per iteration of the range loop over    *)
(* taskOrder, one for the statement after the loop.                        *)
(***************************************************************************)
ResolveLoopStepBestMethod ==
    /\ rpc = "loop"
    /\ rIdx <= Len(taskOrder)
    /\ LET task == taskOrder[rIdx]
           p == ProbeHTTPCapability(execResponses, task)
       IN /\ execLog' = execLog \o ProbeExecs(execResponses, task, p)
          /\ probeOK' = probeOK \cup ProbeSuccess(task, p)
          /\ IF p.ok /\ p.Method = MethodCurl
             THEN /\ rResult' = [status |-> "ok", Task |-> task, Method |-> p.Method, tried |-> <<>>]
                  /\ rpc' = "returned"
                  /\ UNCHANGED <<rIdx, tried>>
             ELSE IF p.ok /\ rIdx = Len(taskOrder)
             THEN /\ rResult' = [status |-> "ok", Task |-> task, Method |-> p.Method, tried |-> <<>>]
                  /\ rpc' = "returned"
                  /\ UNCHANGED <<rIdx, tried>>
             ELSE /\ tried' = Append(tried, task)
                  /\ rIdx' = rIdx + 1
                  /\ UNCHANGED <<rpc, rResult>>
    /\ UNCHANGED <<concVars, sessVars, fnVars, execResponses, allocIDLen, taskOrder, pTask, pResult, orchVars, logVars>>

ResolveLoopStepCached ==
    /\ rpc = "loop"
    /\ rIdx <= Len(taskOrder)
    /\ IF rCalls > 0 /\ rFirst.status = "ok"
       THEN /\ rResult' = rFirst
            /\ rpc' = "returned"
            /\ UNCHANGED <<rIdx, tried, execLog, probeOK>>
       ELSE LET task == taskOrder[rIdx]
                p == ProbeHTTPCapability(execResponses, task)
            IN /\ execLog' = execLog \o ProbeExecs(execResponses, task, p)
               /\ probeOK' = probeOK \cup ProbeSuccess(task, p)
               /\ IF p.ok
                  THEN /\ rResult' = [status |-> "ok", Task |-> task, Method |-> p.Method, tried |-> <<>>]
                       /\ rpc' = "returned"
                       /\ UNCHANGED <<rIdx, tried>>
                  ELSE /\ tried' = Append(tried, task)
                       /\ rIdx' = rIdx + 1
                       /\ UNCHANGED <<rpc, rResult>>
    /\ UNCHANGED <<concVars, sessVars, fnVars, execResponses, allocIDLen, taskOrder, pTask, pResult, orchVars, logVars>>

ResolveLoopStep ==
    /\ rpc = "loop"
    /\ rIdx <= Len(taskOrder)
    /\ LET task == taskOrder[rIdx]
           p == ProbeHTTPCapability(execResponses, task)
       IN /\ execLog' = execLog \o ProbeExecs(execResponses, task, p)
          /\ probeOK' = probeOK \cup ProbeSuccess(task, p)
          /\ IF p.ok
             THEN /\ rResult' = [status |-> "ok", Task |-> task, Method |-> p.Method, tried |-> <<>>]
                  /\ rpc' = "returned"
                  /\ UNCHANGED <<rIdx, tried>>
             ELSE /\ tried' = Append(tried, task)
                  /\ rIdx' = rIdx + 1
                  /\ UNCHANGED <<rpc, rResult>>
    /\ UNCHANGED <<concVars, sessVars, fnVars, execResponses, allocIDLen, taskOrder, pTask, pResult, orchVars, logVars>>

\* the return after the loop: fmt.Errorf(..., allocID[:8], strings.Join(tried, ", "))
ResolveFailLastTried ==
    /\ rpc = "loop"
    /\ rIdx > Len(taskOrder)
    /\ rpc' = "returned"
    /\ rResult' = IF allocIDLen < ShortIDLen
                  THEN [status |-> "panic", Task |-> "", Method |-> 0, tried |-> <<>>]
                  ELSE [status |-> "error", Task |-> "", Method |-> 0,
                        tried |-> IF tried = <<>> THEN <<>> ELSE <<tried[Len(tried)]>>]
    /\ UNCHANGED <<concVars, sessVars, fnVars, execResponses, allocIDLen, taskOrder, pTask, pResult, rIdx, tried, execVars, orchVars, logVars>>

ResolveFail ==
    /\ rpc = "loop"
    /\ rIdx > Len(taskOrder)
    /\ rpc' = "returned"
    /\ rResult' = IF allocIDLen < ShortIDLen
                  THEN [status |-> "panic", Task |-> "", Method |-> 0, tried |-> <<>>]
                  ELSE [status |-> "error", Task |-> "", Method |-> 0, tried |-> tried]
    /\ UNCHANGED <<concVars, sessVars, fnVars, execResponses, allocIDLen, taskOrder, pTask, pResult, rIdx, tried, execVars, orchVars, logVars>>

(***************************************************************************)
(* A caller that calls ResolveExecStrategy again, as the range loop of     *)
(* TestResolveExecStrategy does with the next table entry: a new mock      *)
(* service with its own responses, the same allocation and task order.     *)
(* A call that panicked ends the caller.                                   *)
(***************************************************************************)
ToolSets == {{}, {MethodCurl}, {MethodBashTCP}, {MethodWget, MethodNode}}
ToolEnvs == {[t \in Tasks |-> [m \in Methods |-> IF m \in avail[t] THEN RespOK ELSE RespNotFound]] :
                avail \in [Tasks -> ToolSets]}

ResolveAgain ==
    /\ rpc = "returned"
    /\ rResult.status # "panic"
    /\ rCalls + 1 < MaxResolveCalls
    /\ \E env \in ToolEnvs : execResponses' = env
    /\ rCalls' = rCalls + 1
    /\ rFirst' = IF rCalls = 0 THEN rResult ELSE rFirst
    /\ rLogStart' = Len(execLog)
    /\ rpc' = "loop"
    /\ rIdx' = 1
    /\ tried' = <<>>
    /\ rResult' = NoResult
    /\ UNCHANGED <<allocIDLen, taskOrder, pTask, pResult, execVars, orchVars, logVars, fnVars, concVars,
                   opts, lpc, captures, startTime, elapsed, aIdx, snapSkip, lastLevel,
                   cluster, findArgs, found>>

(***************************************************************************)
(* CaptureSnapshot and its helpers.  config.impl names the snapshot source *)
(* modelled: "http_first" is the one whose SnapshotConfig has AllocIP and  *)
(* tries direct HTTP before exec; "exec_only" is the one without AllocIP.  *)
(***************************************************************************)
DefaultEndpoints == <<"/stats", "/config_dump", "/listeners", "/clusters", "/certs">>

\* fmt.Sprintf("/logging?level=%s", level)
LoggingPath(level) ==
    CASE level = "debug" -> "/logging?level=debug"
      [] level = "trace" -> "/logging?level=trace"
      [] level = "info" -> "/logging?level=info"

\* fmt.Sprintf("%s.json", strings.TrimPrefix(endpoint, "/"))
EndpointFile(endpoint) ==
    CASE endpoint = "/stats" -> "stats.json"
      [] endpoint = "/config_dump" -> "config_dump.json"
      [] endpoint = "/listeners" -> "listeners.json"
      [] endpoint = "/clusters" -> "clusters.json"
      [] endpoint = "/certs" -> "certs.json"

\* the command vectors of EnvoyAdminGETViaExec, EnvoyAdminPOSTViaExec, captureTcpdump
ExecGETCommand(path) == <<"sh", "-c", "curl -s", path>>
ExecPOSTCommand(path) == <<"sh", "-c", "curl -s -X POST", path>>
TcpdumpCommand == <<"sh", "-c", "timeout tcpdump | base64">>

NoFiles == [n \in {} |-> <<>>]
\* no archive yet; createTarGz records the files it read
NoArchive == [made |-> FALSE, files |-> NoFiles]
\* os.WriteFile: creates or truncates
WriteFile(fs, name, content) == (name :> content) @@ fs

\* data returned by the fetch of the i-th entry of the endpoint list
Payload(i) == <<"payload", ToString(i)>>

NoCall == [op |-> "none", path |-> "", direct |-> 0, directOK |-> 0, failed |-> 0, exec |-> 0,
           fails |-> {}, result |-> "none", via |-> "none", exitCode |-> 0]

\* the exit status ExecuteCommandWithStderr returns: that of the command when
\* the exec call itself succeeded (0, or that of a shell without curl), -1 with
\* an error
ExitCodes(failed) == IF failed THEN {-1} ELSE {0, ExitNotFound}
NewCall(op, path) == [NoCall EXCEPT !.op = op, !.path = path, !.result = "pending"]

\* tasksToLog := []string{config.TaskName} plus the non-blank extras that differ from it
BuildTasksToLog(cfg) ==
    <<cfg.TaskName>> \o SelectSeq(cfg.ExtraLogs, LAMBDA t : t # "" /\ t # cfg.TaskName)

BlankCount(ts) == Cardinality({i \in 1..Len(ts) : ts[i] = ""})

Streams == {"stdout", "stderr"}

\* a goroutine of the log loop before it runs; its fields are those of
\* streamLogsWithTimeout / streamLogsToFiles: the context, the done channel,
\* logsBuf and the bytes returned, firstErr or the error returned, the open files
NoUnit == [pc |-> "none", n |-> 0, ctxDone |-> FALSE, ctxErr |-> "none", done |-> <<>>,
           err |-> "nil", logsBuf |-> <<>>, bytes |-> <<>>, open |-> {}]

\* a FetchTaskLogs goroutine before it runs: frames it can still receive, its
\* return value, stderrBuf
NoSub == [pc |-> "idle", left |-> 0, res |-> "none", buf |-> <<>>]

HasIP == config.impl = "http_first" /\ config.AllocIP # ""

\* default endpoints, the short ID of the first log line, os.MkdirTemp
Begin ==
    /\ cpc = "start"
    /\ IF allocIDLen < ShortIDLen
       THEN /\ cpc' = "done"
            /\ ret' = "panic"
            /\ UNCHANGED <<endpoints, tempDir>>
       ELSE \E mk \in BOOLEAN :
            /\ endpoints' = IF Len(config.Endpoints) = 0
                            THEN DefaultEndpoints
                            ELSE config.Endpoints
            /\ IF mk
               THEN /\ tempDir' = "exists"
                    /\ cpc' = "launch"
                    /\ ret' = ret
               ELSE /\ tempDir' = tempDir
                    /\ cpc' = "done"
                    /\ ret' = "error: failed to create temporary directory"
    /\ UNCHANGED <<config, files, archive, epIdx, call, events, fetched, pcap, tasksToLog,
                   logResults, joined>>
    /\ UNCHANGED <<concVars, sessVars, fnVars, probeVars, execVars, logVars>>

\* the log loop, then the call of setEnvoyLogLevel(debug or trace)
LaunchLogStreamsBlankSilent ==
    /\ cpc = "launch"
    /\ LET ts == BuildTasksToLog(config)
       IN /\ tasksToLog' = ts
          /\ logResults' = 0
    /\ cpc' = "raise"
    /\ call' = NewCall("POST", LoggingPath(IF config.EnableTrace THEN "trace" ELSE "debug"))
    /\ events' = Append(events, [op |-> "setEnvoyLogLevel", arg |-> call'.path, sent |-> 0])
    /\ unit' = [i \in 1..Len(tasksToLog') |->
                    IF tasksToLog'[i] = "" THEN NoUnit ELSE [NoUnit EXCEPT !.pc = "start"]]
    /\ sub' = [i \in 1..Len(tasksToLog') |-> [s \in Streams |-> NoSub]]
    /\ UNCHANGED <<config, endpoints, ret, tempDir, files, archive, epIdx, fetched, pcap, joined>>
    /\ UNCHANGED <<concVars, sessVars, fnVars, probeVars, execVars>>

LaunchLogStreams ==
    /\ cpc = "launch"
    /\ LET ts == BuildTasksToLog(config)
       IN /\ BlankCount(ts) <= Len(config.ExtraLogs) + 1
          /\ tasksToLog' = ts
          /\ logResults' = BlankCount(ts)
    /\ cpc' = "raise"
    /\ call' = NewCall("POST", LoggingPath(IF config.EnableTrace THEN "trace" ELSE "debug"))
    /\ events' = Append(events, [op |-> "setEnvoyLogLevel", arg |-> call'.path, sent |-> 0])
    /\ unit' = [i \in 1..Len(tasksToLog') |->
                    IF tasksToLog'[i] = "" THEN NoUnit ELSE [NoUnit EXCEPT !.pc = "start"]]
    /\ sub' = [i \in 1..Len(tasksToLog') |-> [s \in Streams |-> NoSub]]
    /\ UNCHANGED <<config, endpoints, ret, tempDir, files, archive, epIdx, fetched, pcap, joined>>
    /\ UNCHANGED <<concVars, sessVars, fnVars, probeVars, execVars>>

\* setEnvoyLogLevel: nomadService.EnvoyAdminPOST(config.AllocIP, ...)
DirectPOST ==
    /\ cpc \in {"raise", "reset"}
    /\ call.result = "pending"
    /\ HasIP
    /\ call.direct = 0
    /\ \E ok \in BOOLEAN :
        call' = IF ok
                THEN [call EXCEPT !.direct = @ + 1, !.directOK = @ + 1,
                                  !.result = "ok", !.via = "direct"]
                ELSE [call EXCEPT !.direct = @ + 1, !.failed = @ + 1, !.fails = @ \cup {"err"}]
    /\ UNCHANGED <<config, endpoints, cpc, ret, tempDir, files, archive, epIdx, events, fetched, pcap,
                   tasksToLog, logResults, joined>>
    /\ UNCHANGED <<concVars, sessVars, fnVars, probeVars, execVars, logVars>>

\* setEnvoyLogLevel: nomadService.EnvoyAdminPOSTViaExec(config.AllocID, config.SidecarTask, ...)
ExecPOSTAfterSuccess ==
    /\ cpc \in {"raise", "reset"}
    /\ call.exec = 0
    /\ ~HasIP \/ call.direct = 1
    /\ execLog' = Append(execLog, [task |-> config.SidecarTask, cmd |-> ExecPOSTCommand(call.path)])
    /\ \E ok \in BOOLEAN : \E code \in ExitCodes(~ok) :
        call' = [call EXCEPT !.exec = @ + 1, !.via = "exec",
                             !.result = IF ok THEN "ok" ELSE "err", !.exitCode = code]
    /\ UNCHANGED <<config, endpoints, cpc, ret, tempDir, files, archive, epIdx, events, fetched, pcap,
                   tasksToLog, logResults, joined>>
    /\ UNCHANGED <<concVars, sessVars, fnVars, probeVars, probeOK, logVars>>

ExecPOST ==
    /\ cpc \in {"raise", "reset"}
    /\ call.result = "pending"
    /\ ~HasIP \/ call.direct = 1
    /\ execLog' = Append(execLog, [task |-> config.SidecarTask, cmd |-> ExecPOSTCommand(call.path)])
    /\ \E ok \in BOOLEAN : \E code \in ExitCodes(~ok) :
        call' = [call EXCEPT !.exec = @ + 1, !.via = "exec",
                             !.result = IF ok THEN "ok" ELSE "err", !.exitCode = code]
    /\ UNCHANGED <<config, endpoints, cpc, ret, tempDir, files, archive, epIdx, events, fetched, pcap,
                   tasksToLog, logResults, joined>>
    /\ UNCHANGED <<concVars, sessVars, fnVars, probeVars, probeOK, logVars>>

\* setEnvoyLogLevel(raise) has returned: on to tcpdump or to the endpoint loop
RaiseReturnedEarly ==
    /\ cpc = "raise"
    /\ IF config.TcpdumpEnabled
       THEN /\ cpc' = "tcpdump"
            /\ events' = events \o <<[op |-> "returned", arg |-> call.path, sent |-> call.direct + call.exec],
                                      [op |-> "captureTcpdump", arg |-> "", sent |-> 0]>>
            /\ UNCHANGED <<epIdx, call>>
       ELSE /\ cpc' = "fetch"
            /\ epIdx' = 1
            /\ call' = NewCall("GET", endpoints[1])
            /\ events' = events \o <<[op |-> "returned", arg |-> call.path, sent |-> call.direct + call.exec],
                                      [op |-> "fetchEnvoyEndpoint", arg |-> endpoints[1], sent |-> 0]>>
    /\ UNCHANGED <<config, endpoints, ret, tempDir, files, archive, fetched, pcap,
                   tasksToLog, logResults, joined>>
    /\ UNCHANGED <<concVars, sessVars, fnVars, probeVars, execVars, logVars>>

RaiseReturned ==
    /\ cpc = "raise"
    /\ call.result # "pending"
    /\ IF config.TcpdumpEnabled
       THEN /\ cpc' = "tcpdump"
            /\ events' = events \o <<[op |-> "returned", arg |-> call.path, sent |-> call.direct + call.exec],
                                      [op |-> "captureTcpdump", arg |-> "", sent |-> 0]>>
            /\ UNCHANGED <<epIdx, call>>
       ELSE /\ cpc' = "fetch"
            /\ epIdx' = 1
            /\ call' = NewCall("GET", endpoints[1])
            /\ events' = events \o <<[op |-> "returned", arg |-> call.path, sent |-> call.direct + call.exec],
                                      [op |-> "fetchEnvoyEndpoint", arg |-> endpoints[1], sent |-> 0]>>
    /\ UNCHANGED <<config, endpoints, ret, tempDir, files, archive, fetched, pcap,
                   tasksToLog, logResults, joined>>
    /\ UNCHANGED <<concVars, sessVars, fnVars, probeVars, execVars, logVars>>

TcpdumpOutcomes == {"not found", "err", "no data", "bad base64", "data"}

TcpdumpFatal ==
    /\ cpc = "tcpdump"
    /\ execLog' = Append(execLog, [task |-> config.SidecarTask, cmd |-> TcpdumpCommand])
    /\ \E out \in TcpdumpOutcomes, wr \in BOOLEAN :
        /\ out # "data" => wr
        /\ pcap' = [out |-> out, written |-> (out = "data" /\ wr)]
        /\ IF out = "not found"
           THEN /\ ret' = "error: tcpdump not available in sidecar image"
                /\ cpc' = "done"
                /\ tempDir' = "removed"
                /\ files' = NoFiles
                /\ UNCHANGED <<events, epIdx, call>>
           ELSE /\ files' = IF out = "data" /\ wr
                            THEN WriteFile(files, "capture.pcap", <<"pcap">>)
                            ELSE files
                /\ events' = Append(events, [op |-> "fetchEnvoyEndpoint", arg |-> endpoints[1], sent |-> 0])
                /\ cpc' = "fetch"
                /\ epIdx' = 1
                /\ call' = NewCall("GET", endpoints[1])
                /\ UNCHANGED <<ret, tempDir>>
    /\ UNCHANGED <<config, endpoints, archive, fetched, tasksToLog, logResults, joined>>
    /\ UNCHANGED <<concVars, sessVars, fnVars, probeVars, probeOK, logVars>>

\* captureTcpdump and the write of capture.pcap
Tcpdump ==
    /\ cpc = "tcpdump"
    /\ events' = Append(events, [op |-> "fetchEnvoyEndpoint", arg |-> endpoints[1], sent |-> 0])
    /\ execLog' = Append(execLog, [task |-> config.SidecarTask, cmd |-> TcpdumpCommand])
    /\ \E out \in TcpdumpOutcomes, wr \in BOOLEAN :
        /\ out # "data" => wr
        /\ pcap' = [out |-> out, written |-> (out = "data" /\ wr)]
        /\ files' = IF out = "data" /\ wr
                    THEN WriteFile(files, "capture.pcap", <<"pcap">>)
                    ELSE files
    /\ cpc' = "fetch"
    /\ epIdx' = 1
    /\ call' = NewCall("GET", endpoints[1])
    /\ UNCHANGED <<config, endpoints, ret, tempDir, archive, fetched, tasksToLog, logResults, joined>>
    /\ UNCHANGED <<concVars, sessVars, fnVars, probeVars, probeOK, logVars>>

GETResponses == {"data", "empty", "err"}

\* fetchEnvoyEndpoint: one pass of the retry loop around nomadService.EnvoyAdminGET
DirectGETNoReturn ==
    /\ cpc = "fetch"
    /\ call.result = "pending"
    /\ HasIP
    /\ call.direct < maxRetries
    /\ \E resp \in GETResponses :
        call' = IF resp = "data"
                THEN [call EXCEPT !.direct = @ + 1, !.directOK = @ + 1]
                ELSE [call EXCEPT !.direct = @ + 1, !.failed = @ + 1, !.fails = @ \cup {resp}]
    /\ UNCHANGED <<config, endpoints, cpc, ret, tempDir, files, archive, epIdx, events, fetched, pcap,
                   tasksToLog, logResults, joined>>
    /\ UNCHANGED <<concVars, sessVars, fnVars, probeVars, execVars, logVars>>

DirectGET ==
    /\ cpc = "fetch"
    /\ call.result = "pending"
    /\ HasIP
    /\ call.direct < maxRetries
    /\ \E resp \in GETResponses :
        call' = IF resp = "data"
                THEN [call EXCEPT !.direct = @ + 1, !.directOK = @ + 1,
                                  !.result = "data", !.via = "direct"]
                ELSE [call EXCEPT !.direct = @ + 1, !.failed = @ + 1, !.fails = @ \cup {resp}]
    /\ UNCHANGED <<config, endpoints, cpc, ret, tempDir, files, archive, epIdx, events, fetched, pcap,
                   tasksToLog, logResults, joined>>
    /\ UNCHANGED <<concVars, sessVars, fnVars, probeVars, execVars, logVars>>

\* fetchEnvoyEndpoint: nomadService.EnvoyAdminGETViaExec(config.AllocID, config.SidecarTask, ...)
ExecGETEarly ==
    /\ cpc = "fetch"
    /\ call.result = "pending"
    /\ ~HasIP \/ call.direct >= 1
    /\ execLog' = Append(execLog, [task |-> config.SidecarTask, cmd |-> ExecGETCommand(call.path)])
    /\ \E resp \in GETResponses : \E code \in ExitCodes(resp = "err") :
        call' = [call EXCEPT !.exec = @ + 1, !.via = "exec", !.result = resp,
                             !.exitCode = code]
    /\ UNCHANGED <<config, endpoints, cpc, ret, tempDir, files, archive, epIdx, events, fetched, pcap,
                   tasksToLog, logResults, joined>>
    /\ UNCHANGED <<concVars, sessVars, fnVars, probeVars, probeOK, logVars>>

ExecGETLatched ==
    /\ cpc = "fetch"
    /\ call.result = "pending"
    /\ \/ ~HasIP
       \/ call.direct = maxRetries
       \/ \E k \in 1..Len(execLog) : execLog[k].cmd[3] = "curl -s"
    /\ execLog' = Append(execLog, [task |-> config.SidecarTask, cmd |-> ExecGETCommand(call.path)])
    /\ \E resp \in GETResponses : \E code \in ExitCodes(resp = "err") :
        call' = [call EXCEPT !.exec = @ + 1, !.via = "exec", !.result = resp,
                             !.exitCode = code]
    /\ UNCHANGED <<config, endpoints, cpc, ret, tempDir, files, archive, epIdx, events, fetched, pcap,
                   tasksToLog, logResults, joined>>
    /\ UNCHANGED <<concVars, sessVars, fnVars, probeVars, probeOK, logVars>>

ExecGET ==
    /\ cpc = "fetch"
    /\ call.result = "pending"
    /\ ~HasIP \/ call.direct = maxRetries
    /\ execLog' = Append(execLog, [task |-> config.SidecarTask, cmd |-> ExecGETCommand(call.path)])
    /\ \E resp \in GETResponses : \E code \in ExitCodes(resp = "err") :
        call' = [call EXCEPT !.exec = @ + 1, !.via = "exec", !.result = resp,
                             !.exitCode = code]
    /\ UNCHANGED <<config, endpoints, cpc, ret, tempDir, files, archive, epIdx, events, fetched, pcap,
                   tasksToLog, logResults, joined>>
    /\ UNCHANGED <<concVars, sessVars, fnVars, probeVars, probeOK, logVars>>

\* the body of the endpoint loop after fetchEnvoyEndpoint has returned
StoreEndpointFatal ==
    /\ cpc = "fetch"
    /\ call.result # "pending"
    /\ IF call.result = "err"
       THEN /\ ret' = "error: failed to fetch endpoint"
            /\ cpc' = "done"
            /\ tempDir' = "removed"
            /\ files' = NoFiles
            /\ UNCHANGED <<fetched, epIdx, call, events>>
       ELSE /\ \E wr \in BOOLEAN :
                /\ call.result # "data" => wr
                /\ files' = IF call.result = "data" /\ wr
                            THEN WriteFile(files, EndpointFile(call.path), Payload(epIdx))
                            ELSE files
                /\ fetched' = Append(fetched, [endpoint |-> call.path, result |-> call.result,
                                               written |-> (call.result = "data" /\ wr)])
            /\ IF epIdx < Len(endpoints)
               THEN /\ epIdx' = epIdx + 1
                    /\ call' = NewCall("GET", endpoints[epIdx + 1])
                    /\ events' = Append(events, [op |-> "fetchEnvoyEndpoint", arg |-> endpoints[epIdx + 1], sent |-> 0])
                    /\ cpc' = cpc
               ELSE /\ cpc' = "join"
                    /\ UNCHANGED <<epIdx, call, events>>
            /\ UNCHANGED <<ret, tempDir>>
    /\ UNCHANGED <<config, endpoints, archive, pcap, tasksToLog, logResults, joined>>
    /\ UNCHANGED <<concVars, sessVars, fnVars, probeVars, execVars, logVars>>

StoreEndpointAbort ==
    /\ cpc = "fetch"
    /\ call.result # "pending"
    /\ \E wr \in BOOLEAN :
        /\ call.result # "data" => wr
        /\ files' = IF call.result = "data" /\ wr
                    THEN WriteFile(files, EndpointFile(call.path), Payload(epIdx))
                    ELSE files
        /\ fetched' = Append(fetched, [endpoint |-> call.path, result |-> call.result,
                                       written |-> (call.result = "data" /\ wr)])
    /\ IF epIdx < Len(endpoints) /\ call.result # "err"
       THEN /\ epIdx' = epIdx + 1
            /\ call' = NewCall("GET", endpoints[epIdx + 1])
            /\ events' = Append(events, [op |-> "fetchEnvoyEndpoint", arg |-> endpoints[epIdx + 1], sent |-> 0])
            /\ cpc' = cpc
       ELSE /\ cpc' = "join"
            /\ UNCHANGED <<epIdx, call, events>>
    /\ UNCHANGED <<config, endpoints, ret, tempDir, archive, pcap, tasksToLog, logResults, joined>>
    /\ UNCHANGED <<concVars, sessVars, fnVars, probeVars, execVars, logVars>>

\* Mutant of StoreEndpoint: an empty result is persisted as an empty file.
StoreEndpointKeepsEmpty ==
    /\ cpc = "fetch"
    /\ call.result # "pending"
    /\ \E wr \in BOOLEAN :
        /\ call.result # "data" => wr
        /\ files' = IF call.result = "data" /\ wr
                    THEN WriteFile(files, EndpointFile(call.path), Payload(epIdx))
                    ELSE IF call.result = "empty"
                    THEN WriteFile(files, EndpointFile(call.path), <<>>)
                    ELSE files
        /\ fetched' = Append(fetched, [endpoint |-> call.path, result |-> call.result,
                                       written |-> (call.result = "data" /\ wr)])
    /\ IF epIdx < Len(endpoints)
       THEN /\ epIdx' = epIdx + 1
            /\ call' = NewCall("GET", endpoints[epIdx + 1])
            /\ events' = Append(events, [op |-> "fetchEnvoyEndpoint", arg |-> endpoints[epIdx + 1], sent |-> 0])
            /\ cpc' = cpc
       ELSE /\ cpc' = "join"
            /\ UNCHANGED <<epIdx, call, events>>
    /\ UNCHANGED <<config, endpoints, ret, tempDir, archive, pcap, tasksToLog, logResults, joined>>
    /\ UNCHANGED <<concVars, sessVars, fnVars, probeVars, execVars, logVars>>

StoreEndpoint ==
    /\ cpc = "fetch"
    /\ call.result # "pending"
    /\ \E wr \in BOOLEAN :
        /\ call.result # "data" => wr
        /\ files' = IF call.result = "data" /\ wr
                    THEN WriteFile(files, EndpointFile(call.path), Payload(epIdx))
                    ELSE files
        /\ fetched' = Append(fetched, [endpoint |-> call.path, result |-> call.result,
                                       written |-> (call.result = "data" /\ wr)])
    /\ IF epIdx < Len(endpoints)
       THEN /\ epIdx' = epIdx + 1
            /\ call' = NewCall("GET", endpoints[epIdx + 1])
            /\ events' = Append(events, [op |-> "fetchEnvoyEndpoint", arg |-> endpoints[epIdx + 1], sent |-> 0])
            /\ cpc' = cpc
       ELSE /\ cpc' = "join"
            /\ UNCHANGED <<epIdx, call, events>>
    /\ UNCHANGED <<config, endpoints, ret, tempDir, archive, pcap, tasksToLog, logResults, joined>>
    /\ UNCHANGED <<concVars, sessVars, fnVars, probeVars, execVars, logVars>>

\* one pass of the join loop: <-logResults
JoinRecv ==
    /\ cpc = "join"
    /\ joined < Len(tasksToLog)
    /\ logResults > 0
    /\ logResults' = logResults - 1
    /\ joined' = joined + 1
    /\ UNCHANGED <<config, endpoints, cpc, ret, tempDir, files, archive, epIdx, call, events, fetched,
                   pcap, tasksToLog>>
    /\ UNCHANGED <<concVars, sessVars, fnVars, probeVars, execVars, logVars>>

BundleLeakOnError ==
    /\ cpc = "join"
    /\ joined >= Len(tasksToLog)
    /\ \E ok \in BOOLEAN :
        IF ok
        THEN /\ archive' = [made |-> TRUE, files |-> files]
             /\ IF config.SkipLogLevelReset
                THEN /\ cpc' = "return"
                     /\ call' = call
                     /\ events' = Append(events, [op |-> "createTarGz", arg |-> "", sent |-> 0])
                ELSE /\ cpc' = "reset"
                     /\ call' = NewCall("POST", LoggingPath("info"))
                     /\ events' = events \o <<[op |-> "createTarGz", arg |-> "", sent |-> 0],
                                               [op |-> "setEnvoyLogLevel", arg |-> call'.path, sent |-> 0]>>
             /\ UNCHANGED <<ret, tempDir, files>>
        ELSE /\ ret' = "error: failed to create tar.gz file"
             /\ cpc' = "done"
             /\ events' = Append(events, [op |-> "createTarGz", arg |-> "", sent |-> 0])
             /\ UNCHANGED <<archive, call, tempDir, files>>
    /\ UNCHANGED <<config, endpoints, epIdx, fetched, pcap, tasksToLog, logResults, joined>>
    /\ UNCHANGED <<concVars, sessVars, fnVars, probeVars, execVars, logVars>>

\* createTarGz; on its error the function returns and the deferred RemoveAll runs
Bundle ==
    /\ cpc = "join"
    /\ joined >= Len(tasksToLog)
    /\ \E ok \in BOOLEAN :
        IF ok
        THEN /\ archive' = [made |-> TRUE, files |-> files]
             /\ IF config.SkipLogLevelReset
                THEN /\ cpc' = "return"
                     /\ call' = call
                     /\ events' = Append(events, [op |-> "createTarGz", arg |-> "", sent |-> 0])
                ELSE /\ cpc' = "reset"
                     /\ call' = NewCall("POST", LoggingPath("info"))
                     /\ events' = events \o <<[op |-> "createTarGz", arg |-> "", sent |-> 0],
                                               [op |-> "setEnvoyLogLevel", arg |-> call'.path, sent |-> 0]>>
             /\ UNCHANGED <<ret, tempDir, files>>
        ELSE /\ ret' = "error: failed to create tar.gz file"
             /\ cpc' = "done"
             /\ tempDir' = "removed"
             /\ files' = NoFiles
             /\ events' = Append(events, [op |-> "createTarGz", arg |-> "", sent |-> 0])
             /\ UNCHANGED <<archive, call>>
    /\ UNCHANGED <<config, endpoints, epIdx, fetched, pcap, tasksToLog, logResults, joined>>
    /\ UNCHANGED <<concVars, sessVars, fnVars, probeVars, execVars, logVars>>

\* return nil, with the deferred os.RemoveAll(tempDir)
Return ==
    /\ \/ cpc = "return"
       \/ cpc = "reset" /\ call.result # "pending"
    /\ cpc' = "done"
    /\ ret' = "nil"
    /\ tempDir' = "removed"
    /\ files' = NoFiles
    /\ UNCHANGED <<config, endpoints, archive, epIdx, call, events, fetched, pcap, tasksToLog, logResults, joined>>
    /\ UNCHANGED <<concVars, sessVars, fnVars, probeVars, execVars, logVars>>

(***************************************************************************)
(* The log streams: the goroutine CaptureSnapshot starts per task, which   *)
(* runs streamLogsWithTimeout ("http_first") or streamLogsToFiles          *)
(* ("exec_only"), and the two FetchTaskLogs goroutines each of them starts.*)
(***************************************************************************)
\* fmt.Sprintf("%s-logs.txt", task)
LogsFile(task) ==
    CASE task = PrimaryName -> "web-logs.txt"
      [] task = SidecarName -> "connect-proxy-web-logs.txt"

\* fmt.Sprintf("%s-stdout.log", task), fmt.Sprintf("%s-stderr.log", task)
StreamFile(task, s) ==
    CASE task = PrimaryName /\ s = "stdout" -> "web-stdout.log"
      [] task = PrimaryName /\ s = "stderr" -> "web-stderr.log"
      [] task = SidecarName /\ s = "stdout" -> "connect-proxy-web-stdout.log"
      [] task = SidecarName /\ s = "stderr" -> "connect-proxy-web-stderr.log"

\* go func() { ... FetchTaskLogs(ctx, ...) }()
Spawned == [pc |-> "info", left |-> MaxFrames, res |-> "none", buf |-> <<>>]

\* cancel(): closes ctx.Done unless the deadline already did
Cancelled(u) == IF u.ctxDone THEN u ELSE [u EXCEPT !.ctxDone = TRUE, !.ctxErr = "canceled"]

\* return from streamLogsToFiles: the deferred Close of both files, then cancel()
ReturnClosing(u, e) == Cancelled([u EXCEPT !.pc = "signal", !.err = e, !.open = {}])

\* return from streamLogsWithTimeout: logsBuf.Bytes(), the error, the deferred cancel()
ReturnBytes(u, e) ==
    Cancelled([u EXCEPT !.pc = IF e = "nil" THEN "write" ELSE "signal",
                        !.err = e, !.bytes = u.logsBuf])

\* firstErr after receiving e from done
FirstErr(u, e) == IF e # "nil" /\ u.err = "nil" /\ e # "deadline" THEN e ELSE u.err

\* the start of the goroutine: the context, then either both FetchTaskLogs
\* goroutines (streamLogsWithTimeout) or os.Create(stdoutPath) (streamLogsToFiles)
UnitStart ==
    \E i \in DOMAIN unit :
        /\ unit[i].pc = "start"
        /\ IF config.impl = "http_first"
           THEN /\ unit' = [unit EXCEPT ![i].pc = "select"]
                /\ sub' = [sub EXCEPT ![i] = [s \in Streams |-> Spawned]]
                /\ files' = files
           ELSE \E ok \in BOOLEAN :
                IF ok
                THEN /\ files' = WriteFile(files, StreamFile(tasksToLog[i], "stdout"), <<>>)
                     /\ unit' = [unit EXCEPT ![i].pc = "create2", ![i].open = {"stdout"}]
                     /\ sub' = sub
                ELSE /\ unit' = [unit EXCEPT ![i] = ReturnClosing(@, "error")]
                     /\ UNCHANGED <<files, sub>>
        /\ UNCHANGED <<config, endpoints, cpc, ret, tempDir, archive, epIdx, call, events,
                       fetched, pcap, tasksToLog, logResults, joined>>
        /\ UNCHANGED <<concVars, sessVars, fnVars, probeVars, execVars>>

\* streamLogsToFiles: os.Create(stderrPath), then the two FetchTaskLogs goroutines
UnitCreateStderr ==
    \E i \in DOMAIN unit :
        /\ unit[i].pc = "create2"
        /\ \E ok \in BOOLEAN :
            IF ok
            THEN /\ files' = WriteFile(files, StreamFile(tasksToLog[i], "stderr"), <<>>)
                 /\ unit' = [unit EXCEPT ![i].pc = "select", ![i].open = Streams]
                 /\ sub' = [sub EXCEPT ![i] = [s \in Streams |-> Spawned]]
            ELSE /\ unit' = [unit EXCEPT ![i] = ReturnClosing(@, "error")]
                 /\ UNCHANGED <<files, sub>>
        /\ UNCHANGED <<config, endpoints, cpc, ret, tempDir, archive, epIdx, call, events,
                       fetched, pcap, tasksToLog, logResults, joined>>
        /\ UNCHANGED <<concVars, sessVars, fnVars, probeVars, execVars>>

\* the timer of context.WithTimeout fires
Deadline ==
    \E i \in DOMAIN unit :
        /\ unit[i].pc \in {"create2", "select", "wait2", "grace"}
        /\ ~unit[i].ctxDone
        /\ unit' = [unit EXCEPT ![i].ctxDone = TRUE, ![i].ctxErr = "deadline"]
        /\ UNCHANGED <<concVars, sessVars, fnVars, sub, orchVars, probeVars, execVars>>

\* case err := <-done of the outer select
UnitRecvDone ==
    \E i \in DOMAIN unit :
        /\ unit[i].pc = "select"
        /\ unit[i].done # <<>>
        /\ LET e == Head(unit[i].done)
               u == [unit[i] EXCEPT !.done = Tail(@)]
           IN unit' = [unit EXCEPT ![i] =
                        IF config.impl = "http_first"
                        THEN [u EXCEPT !.pc = "wait2", !.err = e]
                        ELSE IF u.n + 1 = 2
                             THEN ReturnClosing([u EXCEPT !.n = 2], FirstErr(u, e))
                             ELSE [u EXCEPT !.n = @ + 1, !.err = FirstErr(u, e)]]
        /\ UNCHANGED <<concVars, sessVars, fnVars, sub, orchVars, probeVars, execVars>>

\* Mutant of UnitCtxDone: without the ctx.Done case the select waits for done only.
UnitCtxDoneIgnored ==
    \E i \in DOMAIN unit :
        /\ unit[i].pc = "select"
        /\ unit[i].ctxDone
        /\ unit' = unit
        /\ UNCHANGED <<concVars, sessVars, fnVars, sub, orchVars, probeVars, execVars>>

\* case <-ctx.Done() of the outer select
UnitCtxDone ==
    \E i \in DOMAIN unit :
        /\ unit[i].pc = "select"
        /\ unit[i].ctxDone
        /\ unit' = [unit EXCEPT ![i] =
                        IF config.impl = "http_first"
                        THEN ReturnBytes(@, "nil")
                        ELSE [@ EXCEPT !.pc = "grace"]]
        /\ UNCHANGED <<concVars, sessVars, fnVars, sub, orchVars, probeVars, execVars>>

\* streamLogsWithTimeout: the inner select, <-done or time.After(2 * time.Second)
UnitWaitSecond ==
    \E i \in DOMAIN unit :
        /\ unit[i].pc = "wait2"
        /\ \E recv \in BOOLEAN :
            /\ recv => unit[i].done # <<>>
            /\ LET u == IF recv THEN [unit[i] EXCEPT !.done = Tail(@)] ELSE unit[i]
               IN unit' = [unit EXCEPT ![i] = ReturnBytes(u, u.err)]
        /\ UNCHANGED <<concVars, sessVars, fnVars, sub, orchVars, probeVars, execVars>>

\* streamLogsToFiles: one pass of the loop over j, <-done or time.After(time.Second)
UnitGrace ==
    \E i \in DOMAIN unit :
        /\ unit[i].pc = "grace"
        /\ \E recv \in BOOLEAN :
            /\ recv => unit[i].done # <<>>
            /\ LET u == IF recv THEN [unit[i] EXCEPT !.done = Tail(@)] ELSE unit[i]
               IN unit' = [unit EXCEPT ![i] =
                            IF u.n + 1 = 2
                            THEN ReturnClosing([u EXCEPT !.n = 2], u.err)
                            ELSE [u EXCEPT !.n = @ + 1]]
        /\ UNCHANGED <<concVars, sessVars, fnVars, sub, orchVars, probeVars, execVars>>

\* os.WriteFile(logsPath, logBytes, 0644)
UnitWriteFile ==
    \E i \in DOMAIN unit :
        /\ unit[i].pc = "write"
        /\ \E ok \in BOOLEAN :
            files' = IF ok THEN WriteFile(files, LogsFile(tasksToLog[i]), unit[i].bytes)
                     ELSE files
        /\ unit' = [unit EXCEPT ![i].pc = "signal"]
        /\ UNCHANGED <<config, endpoints, cpc, ret, tempDir, archive, epIdx, call, events,
                       fetched, pcap, tasksToLog, logResults, joined>>
        /\ UNCHANGED <<concVars, sessVars, fnVars, sub, probeVars, execVars>>

\* logResults <- struct{}{}
UnitSignal ==
    \E i \in DOMAIN unit :
        /\ unit[i].pc = "signal"
        /\ logResults < Len(config.ExtraLogs) + 1
        /\ logResults' = logResults + 1
        /\ unit' = [unit EXCEPT ![i].pc = "gone"]
        /\ UNCHANGED <<config, endpoints, cpc, ret, tempDir, files, archive, epIdx, call,
                       events, fetched, pcap, tasksToLog, joined>>
        /\ UNCHANGED <<concVars, sessVars, fnVars, sub, probeVars, execVars>>

\* where a FetchTaskLogs goroutine goes when FetchTaskLogs has returned e: the
\* stderr goroutine of streamLogsWithTimeout appends stderrBuf to logsBuf first
AfterFetch(s, r, e) ==
    IF config.impl = "http_first" /\ s = "stderr" /\ e = "nil" /\ r.buf # <<>>
    THEN [r EXCEPT !.res = e, !.pc = "sep"]
    ELSE [r EXCEPT !.res = e, !.pc = "send"]

\* FetchTaskLogs: n.nomadClient.Allocations().Info(allocID, nil)
SubInfo ==
    \E i \in DOMAIN sub, s \in Streams :
        /\ sub[i][s].pc = "info"
        /\ \E ok \in BOOLEAN :
            sub' = [sub EXCEPT ![i][s] = IF ok THEN [@ EXCEPT !.pc = "loop"]
                                         ELSE AfterFetch(s, @, "error")]
        /\ UNCHANGED <<concVars, sessVars, fnVars, unit, orchVars, probeVars, execVars>>

\* FetchTaskLogs: case frame, ok := <-frames with a frame, then out.Write(frame.Data);
\* on a file the write first takes its reference on the open descriptor
SubFrame ==
    \E i \in DOMAIN sub, s \in Streams :
        /\ sub[i][s].pc = "loop"
        /\ sub[i][s].left > 0
        /\ IF config.impl = "http_first"
           THEN IF s = "stdout"
                THEN /\ unit' = [unit EXCEPT ![i].logsBuf = Append(@, "out")]
                     /\ sub' = [sub EXCEPT ![i][s].left = @ - 1]
                ELSE /\ unit' = unit
                     /\ sub' = [sub EXCEPT ![i][s].left = @ - 1, ![i][s].buf = Append(@, "err")]
           ELSE /\ unit' = unit
                /\ sub' = [sub EXCEPT ![i][s].left = @ - 1,
                                      ![i][s].pc = IF s \in unit[i].open THEN "writing" ELSE "loop"]
        /\ UNCHANGED <<concVars, sessVars, fnVars, orchVars, probeVars, execVars>>

\* the write system call of out.Write on a file
SubWriteEnd ==
    \E i \in DOMAIN sub, s \in Streams :
        /\ sub[i][s].pc = "writing"
        /\ LET name == StreamFile(tasksToLog[i], s)
           IN files' = IF name \in DOMAIN files
                       THEN [files EXCEPT ![name] = Append(@, "frame")]
                       ELSE files
        /\ sub' = [sub EXCEPT ![i][s].pc = "loop"]
        /\ UNCHANGED <<config, endpoints, cpc, ret, tempDir, archive, epIdx, call, events,
                       fetched, pcap, tasksToLog, logResults, joined>>
        /\ UNCHANGED <<concVars, sessVars, fnVars, unit, probeVars, execVars>>

\* FetchTaskLogs: frames closed, or case err := <-errCh
SubStreamEnd ==
    \E i \in DOMAIN sub, s \in Streams :
        /\ sub[i][s].pc = "loop"
        /\ \E e \in {"nil", "error"} :
            sub' = [sub EXCEPT ![i][s] = AfterFetch(s, @, e)]
        /\ UNCHANGED <<concVars, sessVars, fnVars, unit, orchVars, probeVars, execVars>>

\* FetchTaskLogs: case <-ctx.Done(): return ctx.Err()
SubCtxDone ==
    \E i \in DOMAIN sub, s \in Streams :
        /\ sub[i][s].pc = "loop"
        /\ unit[i].ctxDone
        /\ sub' = [sub EXCEPT ![i][s] = AfterFetch(s, @, unit[i].ctxErr)]
        /\ UNCHANGED <<concVars, sessVars, fnVars, unit, orchVars, probeVars, execVars>>

\* streamLogsWithTimeout, stderr goroutine: logsBuf.WriteString("\n--- STDERR ---\n"),
\* then logsBuf.Write(stderrBuf.Bytes())
SubStderrAppend ==
    \E i \in DOMAIN sub :
        /\ sub[i]["stderr"].pc \in {"sep", "copy"}
        /\ IF sub[i]["stderr"].pc = "sep"
           THEN /\ unit' = [unit EXCEPT ![i].logsBuf = Append(@, "sep")]
                /\ sub' = [sub EXCEPT ![i]["stderr"].pc = "copy"]
           ELSE /\ unit' = [unit EXCEPT ![i].logsBuf = @ \o sub[i]["stderr"].buf]
                /\ sub' = [sub EXCEPT ![i]["stderr"].pc = "send"]
        /\ UNCHANGED <<concVars, sessVars, fnVars, orchVars, probeVars, execVars>>

\* done <- err (the channel holds two)
SubSend ==
    \E i \in DOMAIN sub, s \in Streams :
        /\ sub[i][s].pc = "send"
        /\ Len(unit[i].done) < 2
        /\ unit' = [unit EXCEPT ![i].done = Append(@, sub[i][s].res)]
        /\ sub' = [sub EXCEPT ![i][s].pc = "exit"]
        /\ UNCHANGED <<concVars, sessVars, fnVars, orchVars, probeVars, execVars>>

(***************************************************************************)
(* The functions called on their own.  A []byte is a sequence of one-byte  *)
(* strings.                                                                *)
(***************************************************************************)
DecodeIdle ==
    /\ chunks = [kind |-> "none"]
    /\ data = <<>>
    /\ decoded = [done |-> FALSE, out |-> <<>>]

GETIdle ==
    /\ strategy = [Method |-> MethodCurl, Task |-> ""]
    /\ mockResp = [task |-> "", cmd0 |-> "", exitCode |-> 0, stdout |-> <<>>, err |-> "nil"]
    /\ getResult = [done |-> FALSE, body |-> <<>>, err |-> "nil"]

BuildIdle ==
    /\ bArgs = [method |-> MethodCurl, port |-> 0, path |-> ""]
    /\ getCmd = [done |-> FALSE, cmd |-> <<>>]
    /\ postCmd = [done |-> FALSE, cmd |-> <<>>]

OrderIdle ==
    /\ btoArgs = [sidecar |-> "", primary |-> "", extras |-> <<>>]
    /\ btoResult = [done |-> FALSE, order |-> <<>>]

FnIdle == DecodeIdle /\ GETIdle /\ BuildIdle /\ OrderIdle

\* no second ResolveExecStrategy call, no capture command, no discovery
NoOpts == [repeat |-> 0, duration |-> 0, trace |-> FALSE, allocs |-> <<>>]
NoFound == [done |-> FALSE, err |-> FALSE, allocs |-> {}]
ResolveOnce ==
    /\ rCalls = 0
    /\ rFirst = NoResult
    /\ rLogStart = 0
CommandIdle ==
    /\ opts = NoOpts
    /\ lpc = "idle"
    /\ captures = 0
    /\ startTime = "zero"
    /\ elapsed = FALSE
    /\ aIdx = 0
    /\ snapSkip = FALSE
    /\ lastLevel = <<>>
FindIdle ==
    /\ cluster = [services |-> {}, allocs |-> {}]
    /\ findArgs = [namespace |-> "", serviceName |-> ""]
    /\ found = NoFound
\* no concurrent capture calls
NoDisk == [q \in {} |-> 0]
ConcIdle ==
    /\ pair = <<>>
    /\ disk = NoDisk
    /\ nextDir = 0
    /\ fetch = <<>>
    /\ process = "running"
    /\ sigs = 0
SessIdle == ResolveOnce /\ CommandIdle /\ FindIdle /\ ConcIdle

CR == "\r"
LF == "\n"
CRLF == <<CR, LF>>

\* strconv's base-16 digits, both cases
HexVal(c) ==
    CASE c = "0" -> 0 [] c = "1" -> 1 [] c = "2" -> 2 [] c = "3" -> 3
      [] c = "4" -> 4 [] c = "5" -> 5 [] c = "6" -> 6 [] c = "7" -> 7
      [] c = "8" -> 8 [] c = "9" -> 9
      [] c \in {"a", "A"} -> 10 [] c \in {"b", "B"} -> 11 [] c \in {"c", "C"} -> 12
      [] c \in {"d", "D"} -> 13 [] c \in {"e", "E"} -> 14 [] c \in {"f", "F"} -> 15
      [] OTHER -> -1

\* Mutant of ParseHex: the length line read in base 10.
RECURSIVE ParseHexDecimal(_)
ParseHexDecimal(line) ==
    IF line = <<>> THEN -1
    ELSE LET d == HexVal(line[Len(line)])
             rest == SubSeq(line, 1, Len(line) - 1)
         IN  IF d < 0 \/ d > 9 THEN -1
             ELSE IF rest = <<>> THEN d
             ELSE LET hi == ParseHexDecimal(rest)
                  IN  IF hi < 0 THEN -1 ELSE hi * 10 + d

\* the hex length line of a chunk; -1 when it is not a hex number
RECURSIVE ParseHex(_)
ParseHex(line) ==
    IF line = <<>> THEN -1
    ELSE LET d == HexVal(line[Len(line)])
             rest == SubSeq(line, 1, Len(line) - 1)
         IN  IF d < 0 THEN -1
             ELSE IF rest = <<>> THEN d
             ELSE LET hi == ParseHex(rest)
                  IN  IF hi < 0 THEN -1 ELSE hi * 16 + d

\* bytes.Index(b[from-1:], sep) as a 1-based position in b; 0 when sep does not occur
IndexFrom(b, sep, from) ==
    LET hits == {i \in from..(Len(b) - Len(sep) + 1) : SubSeq(b, i, i + Len(sep) - 1) = sep}
    IN  IF hits = {} THEN 0 ELSE CHOOSE i \in hits : \A j \in hits : i <= j

\* Mutant of DecodeFrom: whatever was decoded so far is returned when the
\* framing breaks.
RECURSIVE DecodeFromTruncating(_, _, _)
DecodeFromTruncating(b, pos, acc) ==
    LET eol == IndexFrom(b, CRLF, pos)
        size == ParseHex(SubSeq(b, pos, eol - 1))
        start == eol + 2
        end == start + size
    IN  IF eol = 0 \/ size < 0 THEN acc
        ELSE IF size = 0 THEN acc
        ELSE IF end - 1 > Len(b) THEN acc
        ELSE IF end + 1 > Len(b) \/ SubSeq(b, end, end + 1) # CRLF THEN acc
        ELSE DecodeFromTruncating(b, end + 2, acc \o SubSeq(b, start, end - 1))

\* the chunk loop from position pos with acc decoded so far: read a hex
\* length line, consume that many payload bytes, skip the trailing CRLF, stop
\* at a zero-length chunk; b itself when the framing is not valid
RECURSIVE DecodeFrom(_, _, _)
DecodeFrom(b, pos, acc) ==
    LET eol == IndexFrom(b, CRLF, pos)
        size == ParseHex(SubSeq(b, pos, eol - 1))
        start == eol + 2
        end == start + size
    IN  IF eol = 0 \/ size < 0 THEN b
        ELSE IF size = 0 THEN acc
        ELSE IF end - 1 > Len(b) THEN b
        ELSE IF end + 1 > Len(b) \/ SubSeq(b, end, end + 1) # CRLF THEN b
        ELSE DecodeFrom(b, end + 2, acc \o SubSeq(b, start, end - 1))

decodeChunked(b) == IF b = <<>> THEN b ELSE DecodeFrom(b, 1, <<>>)

\* decodeChunked(data)
Decode ==
    /\ ~decoded.done
    /\ decoded' = [done |-> TRUE, out |-> decodeChunked(data)]
    /\ UNCHANGED <<concVars, sessVars, chunks, data, strategy, mockResp, getResult, bArgs, getCmd, postCmd,
                   btoArgs, btoResult, probeVars, execVars, orchVars, logVars>>

\* fmt.Sprintf("%d", port)
PortStr(port) == ToString(port)

\* An argument of a command is the sequence of the pieces fmt.Sprintf joins:
\* the parts of the format around its verbs, and the values of the verbs.
URL(port, path) == <<"http://127.0.0.2:", PortStr(port), path>>

\* Mutant of BuildPOSTCommand: the raw-socket request without Content-Length.
BuildPOSTCommandAsGET(method, port, path) ==
    CASE method = MethodCurl -> << <<"curl">>, <<"-s">>, <<"-X">>, <<"POST">>, URL(port, path) >>
      [] method = MethodWget -> << <<"wget">>, <<"-qO-">>, <<"--post-data=">>, URL(port, path) >>
      [] method = MethodPython3 ->
            << <<"python3">>, <<"-c">>,
               <<"import urllib.request;urllib.request.urlopen(urllib.request.Request(\"">>
                   \o URL(port, path) \o <<"\",data=b\"\",method=\"POST\"))">> >>
      [] method = MethodNode ->
            << <<"node">>, <<"-e">>,
               <<"var http=require(\"http\");var r=http.request({hostname:\"127.0.0.2\",port:",
                 PortStr(port), ",path:\"", path,
                 "\",method:\"POST\"},function(res){res.resume()});r.on(\"error\",function(){process.exit(1)});r.end()">> >>
      [] method = MethodBashTCP ->
            << <<"bash">>, <<"-c">>,
               <<"exec 3<>/dev/tcp/127.0.0.2/", PortStr(port), "; echo -e \"", "POST ", path,
                 " HTTP/1.1\\r\\n", "Host: localhost\\r\\n", "Connection: close\\r\\n",
                 "\\r\\n\" >&3; cat <&3">> >>
      [] OTHER -> <<>>

\* nil is the empty sequence
BuildGETCommand(method, port, path) ==
    CASE method = MethodCurl -> << <<"curl">>, <<"-s">>, URL(port, path) >>
      [] method = MethodWget -> << <<"wget">>, <<"-qO-">>, URL(port, path) >>
      [] method = MethodPython3 ->
            << <<"python3">>, <<"-c">>,
               <<"import urllib.request,sys;sys.stdout.buffer.write(urllib.request.urlopen(\"">>
                   \o URL(port, path) \o <<"\").read())">> >>
      [] method = MethodNode ->
            << <<"node">>, <<"-e">>,
               <<"var http=require(\"http\");http.get(\"">> \o URL(port, path)
                   \o <<"\",function(r){var d=[];r.on(\"data\",function(c){d.push(c)});r.on(\"end\",function(){process.stdout.write(Buffer.concat(d))})}).on(\"error\",function(){process.exit(1)})">> >>
      [] method = MethodBashTCP ->
            << <<"bash">>, <<"-c">>,
               <<"exec 3<>/dev/tcp/127.0.0.2/", PortStr(port), "; echo -e \"", "GET ", path,
                 " HTTP/1.1\\r\\n", "Host: localhost\\r\\n", "Connection: close\\r\\n",
                 "\\r\\n\" >&3; cat <&3">> >>
      [] OTHER -> <<>>

BuildPOSTCommand(method, port, path) ==
    CASE method = MethodCurl -> << <<"curl">>, <<"-s">>, <<"-X">>, <<"POST">>, URL(port, path) >>
      [] method = MethodWget -> << <<"wget">>, <<"-qO-">>, <<"--post-data=">>, URL(port, path) >>
      [] method = MethodPython3 ->
            << <<"python3">>, <<"-c">>,
               <<"import urllib.request;urllib.request.urlopen(urllib.request.Request(\"">>
                   \o URL(port, path) \o <<"\",data=b\"\",method=\"POST\"))">> >>
      [] method = MethodNode ->
            << <<"node">>, <<"-e">>,
               <<"var http=require(\"http\");var r=http.request({hostname:\"127.0.0.2\",port:",
                 PortStr(port), ",path:\"", path,
                 "\",method:\"POST\"},function(res){res.resume()});r.on(\"error\",function(){process.exit(1)});r.end()">> >>
      [] method = MethodBashTCP ->
            << <<"bash">>, <<"-c">>,
               <<"exec 3<>/dev/tcp/127.0.0.2/", PortStr(port), "; echo -e \"", "POST ", path,
                 " HTTP/1.1\\r\\n", "Host: localhost\\r\\n", "Connection: close\\r\\n",
                 "Content-Length: 0\\r\\n", "\\r\\n\" >&3; cat <&3">> >>
      [] OTHER -> <<>>

\* BuildGETCommand(method, port, path)
BuildGET ==
    /\ ~getCmd.done
    /\ getCmd' = [done |-> TRUE, cmd |-> BuildGETCommand(bArgs.method, bArgs.port, bArgs.path)]
    /\ UNCHANGED <<concVars, sessVars, chunks, data, decoded, strategy, mockResp, getResult, bArgs, postCmd,
                   btoArgs, btoResult, probeVars, execVars, orchVars, logVars>>

\* BuildPOSTCommand(method, port, path)
BuildPOST ==
    /\ ~postCmd.done
    /\ postCmd' = [done |-> TRUE, cmd |-> BuildPOSTCommand(bArgs.method, bArgs.port, bArgs.path)]
    /\ UNCHANGED <<concVars, sessVars, chunks, data, decoded, strategy, mockResp, getResult, bArgs, getCmd,
                   btoArgs, btoResult, probeVars, execVars, orchVars, logVars>>

\* mockNomadService.ExecuteCommandWithStderr: the response stored under
\* "task:cmd[0]", or the command not found
MockExec(task, cmd) ==
    LET cmd0 == IF Len(cmd) > 0 THEN cmd[1][1] ELSE ""
    IN  IF mockResp.task = task /\ mockResp.cmd0 = cmd0
        THEN [exitCode |-> mockResp.exitCode, err |-> mockResp.err, stdout |-> mockResp.stdout]
        ELSE [exitCode |-> ExitNotFound, err |-> "exec failed: command not found",
              stdout |-> <<>>]

\* body[idx+4:] of the first "\r\n\r\n", body when there is none
StripHeaders(body) ==
    LET idx == IndexFrom(body, CRLF \o CRLF, 1)
    IN  IF idx # 0 THEN SubSeq(body, idx + 4, Len(body)) ELSE body

\* Mutant of GETBody: the output of every method is stripped and decoded.
GETBodyAlwaysDecoded(method, stdout) == decodeChunked(StripHeaders(stdout))

\* the body EnvoyAdminGET returns for the standard output of the command
GETBody(method, stdout) ==
    IF method = MethodBashTCP THEN decodeChunked(StripHeaders(stdout)) ELSE stdout

\* mockNomadService.EnvoyAdminGET(allocID, strategy, port, path)
EnvoyAdminGET ==
    /\ ~getResult.done
    /\ LET cmd == BuildGETCommand(strategy.Method, bArgs.port, bArgs.path)
           r == MockExec(strategy.Task, cmd)
       IN  getResult' = IF r.err # "nil"
                        THEN [done |-> TRUE, body |-> <<>>, err |-> r.err]
                        ELSE [done |-> TRUE, body |-> GETBody(strategy.Method, r.stdout),
                              err |-> "nil"]
    /\ UNCHANGED <<concVars, sessVars, chunks, data, decoded, strategy, mockResp, bArgs, getCmd, postCmd,
                   btoArgs, btoResult, probeVars, execVars, orchVars, logVars>>

\* Mutant of AppendUnique: an extra is dropped only when it is blank.
RECURSIVE AppendNonBlank(_, _)
AppendNonBlank(order, names) ==
    IF names = <<>> THEN order
    ELSE IF Head(names) = "" THEN AppendNonBlank(order, Tail(names))
    ELSE AppendNonBlank(Append(order, Head(names)), Tail(names))

\* names appended to order one by one, a blank name and a name already
\* listed left out
RECURSIVE AppendUnique(_, _)
AppendUnique(order, names) ==
    IF names = <<>> THEN order
    ELSE IF Head(names) = "" \/ \E i \in DOMAIN order : order[i] = Head(names)
         THEN AppendUnique(order, Tail(names))
    ELSE AppendUnique(Append(order, Head(names)), Tail(names))

\* buildTaskOrder(sidecar, taskName, extraLogs)
buildTaskOrder(sidecar, taskName, extraLogs) ==
    AppendUnique(<<>>, <<sidecar, taskName>> \o extraLogs)

BuildTaskOrderCall ==
    /\ ~btoResult.done
    /\ btoResult' = [done |-> TRUE,
                     order |-> buildTaskOrder(btoArgs.sidecar, btoArgs.primary, btoArgs.extras)]
    /\ UNCHANGED <<concVars, sessVars, chunks, data, decoded, strategy, mockResp, getResult, bArgs, getCmd,
                   postCmd, btoArgs, probeVars, execVars, orchVars, logVars>>

OrchIdle ==
    /\ config = [impl |-> "none"]
    /\ endpoints = <<>>
    /\ cpc = "idle"
    /\ ret = "none"
    /\ tempDir = "none"
    /\ files = NoFiles
    /\ archive = NoArchive
    /\ epIdx = 0
    /\ call = NoCall
    /\ events = <<>>
    /\ fetched = <<>>
    /\ pcap = [out |-> "none", written |-> FALSE]
    /\ tasksToLog = <<>>
    /\ logResults = 0
    /\ joined = 0
    /\ unit = <<>>
    /\ sub = <<>>

(***************************************************************************)
(* Run of the capture command, from the point where allocsToCapture is     *)
(* known.  An allocation is its SidecarTask ("" when none was detected).   *)
(* A CaptureSnapshot call is two steps: up to its verbosity raise, and    *)
(* from there to its return; lastLevel records the /logging requests it    *)
(* sends.  elapsed is the clock: time.Since(startTime) >= duration.        *)
(***************************************************************************)
DurationMode == opts.repeat = 0 /\ opts.duration > 0

RunStart ==
    /\ lpc = "start"
    /\ lpc' = IF Len(opts.allocs) = 0 THEN "returned" ELSE "top"
    /\ captures' = 0
    /\ startTime' = "zero"
    /\ UNCHANGED <<probeVars, execVars, orchVars, logVars, fnVars, concVars, rCalls, rFirst, rLogStart, cluster, findArgs, found, opts, elapsed, aIdx, snapSkip, lastLevel>>

\* the two break tests at the head of the for loop
LoopTop ==
    /\ lpc = "top"
    /\ lpc' = IF opts.repeat > 0 /\ captures >= opts.repeat THEN "exit"
              ELSE IF DurationMode /\ startTime # "zero" /\ elapsed THEN "exit"
              ELSE "mkdir"
    /\ UNCHANGED <<probeVars, execVars, orchVars, logVars, fnVars, concVars, rCalls, rFirst, rLogStart, cluster, findArgs, found, opts, captures, startTime, elapsed, aIdx, snapSkip, lastLevel>>

\* os.MkdirAll(snapshotDir, 0755)
MkdirAll ==
    /\ lpc = "mkdir"
    /\ \E ok \in BOOLEAN :
        /\ lpc' = IF ok THEN "allocs" ELSE "failed"
        /\ aIdx' = IF ok THEN 1 ELSE aIdx
    /\ UNCHANGED <<probeVars, execVars, orchVars, logVars, fnVars, concVars, rCalls, rFirst, rLogStart, cluster, findArgs, found, opts, captures, startTime, elapsed, snapSkip, lastLevel>>

\* log.Printf("Failed to create snapshot directory"); continue
Continue ==
    /\ lpc = "failed"
    /\ lpc' = "top"
    /\ UNCHANGED <<probeVars, execVars, orchVars, logVars, fnVars, concVars, rCalls, rFirst, rLogStart, cluster, findArgs, found, opts, captures, startTime, elapsed, aIdx, snapSkip, lastLevel>>

RaisedLevel == IF opts.trace THEN "trace" ELSE "debug"

\* one iteration of the range loop up to the verbosity raise of CaptureSnapshot
AllocStep ==
    /\ lpc = "allocs"
    /\ aIdx <= Len(opts.allocs)
    /\ IF opts.allocs[aIdx] = ""
       THEN /\ aIdx' = aIdx + 1
            /\ UNCHANGED <<lpc, startTime, snapSkip, lastLevel>>
       ELSE LET finalReset == opts.repeat = 0 \/ captures = opts.repeat - 1
            IN /\ snapSkip' = ~finalReset
               /\ startTime' = IF DurationMode /\ startTime = "zero" THEN "set" ELSE startTime
               /\ \E mkdirTemp \in BOOLEAN :
                    IF mkdirTemp
                    THEN /\ lastLevel' = [lastLevel EXCEPT ![aIdx] = RaisedLevel]
                         /\ lpc' = "capturing"
                         /\ aIdx' = aIdx
                    ELSE /\ aIdx' = aIdx + 1
                         /\ UNCHANGED <<lpc, lastLevel>>
    /\ UNCHANGED <<probeVars, execVars, orchVars, logVars, fnVars, concVars, rCalls, rFirst, rLogStart, cluster, findArgs, found, opts, captures, elapsed>>

\* CaptureSnapshot from its verbosity raise to its return: the reset is sent
\* after createTarGz succeeded, unless SkipLogLevelReset
CaptureReturns ==
    /\ lpc = "capturing"
    /\ \E tar \in BOOLEAN :
        lastLevel' = IF tar /\ ~snapSkip THEN [lastLevel EXCEPT ![aIdx] = "info"] ELSE lastLevel
    /\ aIdx' = aIdx + 1
    /\ lpc' = "allocs"
    /\ UNCHANGED <<probeVars, execVars, orchVars, logVars, fnVars, concVars, rCalls, rFirst, rLogStart, cluster, findArgs, found, opts, captures, startTime, elapsed, snapSkip>>

\* captures++ and the sleep tests; in duration mode captures is not read and
\* is counted up to MaxRepeat
AllocsDone ==
    /\ lpc = "allocs"
    /\ aIdx > Len(opts.allocs)
    /\ captures' = IF opts.repeat = 0 /\ captures >= MaxRepeat THEN captures ELSE captures + 1
    /\ lpc' = IF opts.repeat > 0 /\ captures' < opts.repeat THEN "sleep"
              ELSE IF opts.repeat = 0 THEN "sleep"
              ELSE "top"
    /\ UNCHANGED <<probeVars, execVars, orchVars, logVars, fnVars, concVars, rCalls, rFirst, rLogStart, cluster, findArgs, found, opts, startTime, elapsed, aIdx, snapSkip, lastLevel>>

\* time.Sleep(interval) returns
Sleep ==
    /\ lpc = "sleep"
    /\ lpc' = "top"
    /\ UNCHANGED <<probeVars, execVars, orchVars, logVars, fnVars, concVars, rCalls, rFirst, rLogStart, cluster, findArgs, found, opts, captures, startTime, elapsed, aIdx, snapSkip, lastLevel>>

\* the clock passes startTime + duration
Elapse ==
    /\ startTime = "set"
    /\ ~elapsed
    /\ elapsed' = TRUE
    /\ UNCHANGED <<probeVars, execVars, orchVars, logVars, fnVars, concVars, rCalls, rFirst, rLogStart, cluster, findArgs, found, opts, lpc, captures, startTime, aIdx, snapSkip, lastLevel>>

(***************************************************************************)
(* FindConnectAllocationsByService and scanNomadForConnectAllocations.     *)
(* A Consul service name is the sequence of its parts, the suffix          *)
(* "-sidecar-proxy" being one part.  cl.allocs maps an allocation ID to    *)
(* the Consul service it serves (svc), its Namespace, whether its sidecar  *)
(* instance is in Consul and passing (inConsul), whether its ClientStatus  *)
(* is "running", whether its job has Connect (connect) and whether         *)
(* Allocations().Info answers for it (info).  The order of the returned    *)
(* slice follows Go's map iteration and is not modelled: results are sets. *)
(***************************************************************************)
SidecarProxySuffix == "-sidecar-proxy"
HasSuffix(name, suffix) == Len(name) > 0 /\ name[Len(name)] = suffix
TrimSuffix(name, suffix) ==
    IF HasSuffix(name, suffix) THEN SubSeq(name, 1, Len(name) - 1) ELSE name

\* Catalog().Services: every service and every sidecar proxy registered
CatalogServices(cl) ==
    {<<cl.allocs[a].svc>> : a \in DOMAIN cl.allocs}
        \cup {<<cl.allocs[a].svc, SidecarProxySuffix>> : a \in {x \in DOMAIN cl.allocs : cl.allocs[x].inConsul}}

\* Health().Service(proxySvc, "", true): the allocations of its passing instances
HealthService(cl, proxySvc) ==
    {a \in DOMAIN cl.allocs :
        cl.allocs[a].inConsul /\ <<cl.allocs[a].svc, SidecarProxySuffix>> = proxySvc}

scanNomadForConnectAllocations(cl, namespace) ==
    IF cl.listErr
    THEN [done |-> TRUE, err |-> TRUE, allocs |-> {}]
    ELSE [done |-> TRUE, err |-> FALSE,
          allocs |-> {a \in DOMAIN cl.allocs :
                        /\ namespace # "" => cl.allocs[a].Namespace = namespace
                        /\ cl.allocs[a].running
                        /\ cl.allocs[a].info
                        /\ cl.allocs[a].connect}]

FindConnectAllocationsByService(cl, namespace, serviceName) ==
    IF cl.catalogErr
    THEN [done |-> TRUE, err |-> TRUE, allocs |-> {}]
    ELSE LET proxyServices ==
                 {svc \in CatalogServices(cl) :
                    /\ HasSuffix(svc, SidecarProxySuffix)
                    /\ serviceName # "" => TrimSuffix(svc, SidecarProxySuffix) = <<serviceName>>}
             results ==
                 {a \in DOMAIN cl.allocs :
                    /\ \E proxySvc \in proxyServices : a \in HealthService(cl, proxySvc)
                    /\ cl.allocs[a].info
                    /\ namespace # "" => cl.allocs[a].Namespace = namespace}
         IN IF results = {}
            THEN scanNomadForConnectAllocations(cl, namespace)
            ELSE [done |-> TRUE, err |-> FALSE, allocs |-> results]

Find ==
    /\ ~found.done
    /\ found' = FindConnectAllocationsByService(cluster, findArgs.namespace, findArgs.serviceName)
    /\ UNCHANGED <<probeVars, execVars, orchVars, logVars, fnVars, concVars, rCalls, rFirst, rLogStart,
                   opts, lpc, captures, startTime, elapsed, aIdx, snapSkip, lastLevel,
                   cluster, findArgs>>

(***************************************************************************)
(* Two CaptureSnapshot calls running in one process, reduced to the files  *)
(* they create and to one FetchTaskLogs call each.  An AllocID is its      *)
(* first eight characters (short) and the rest.  A path is a sequence of   *)
(* its parts.  A panic of any goroutine ends the process.                  *)
(***************************************************************************)
CallIDs == {1, 2}
ShortID(id) == id.short
\* os.MkdirTemp("", config.AllocID[:8]): the prefix and a suffix no existing name has
TempDirPath(id, n) == <<"tmp", ShortID(id), ToString(n)>>
\* filepath.Join(config.OutputDir, fmt.Sprintf("%s_snapshot.tar.gz", config.AllocID[:8]))
TarFilePath(out, id) == <<out, ShortID(id), "_snapshot.tar.gz">>

NoFetch == [ctx |-> "live", closes |-> 0, watcher |-> "idle", handler |-> "idle", sigCh |-> 0,
            loop |-> "idle"]
Running == process = "running"

\* close(cancel): closing a closed channel panics
CloseCancel(f) == [f EXCEPT !.closes = @ + 1]
Panics(f) == f.closes >= 1

\* CaptureSnapshot up to its log stream: os.MkdirTemp, then FetchTaskLogs up to
\* its select loop (the two goroutines started, sigCh registered with signal.Notify)
PairBegin(c) ==
    /\ Running
    /\ pair[c].pc = "start"
    /\ \E ok \in BOOLEAN :
        IF ok
        THEN /\ pair' = [pair EXCEPT ![c].pc = "streaming", ![c].dir = TempDirPath(pair[c].id, nextDir)]
             /\ disk' = (TempDirPath(pair[c].id, nextDir) :> c) @@ disk
             /\ nextDir' = nextDir + 1
             /\ fetch' = [fetch EXCEPT ![c] = [NoFetch EXCEPT !.watcher = "wait", !.handler = "wait",
                                                              !.loop = "running"]]
        ELSE /\ pair' = [pair EXCEPT ![c].pc = "done"]
             /\ UNCHANGED <<disk, nextDir, fetch>>
    /\ UNCHANGED <<process, sigs>>
    /\ UNCHANGED <<probeVars, execVars, orchVars, logVars, fnVars, sessVars>>

\* the deadline of the call's context passes, or its cancel() is called
CtxDone(c) ==
    /\ Running
    /\ fetch[c].loop # "idle"
    /\ fetch[c].ctx = "live"
    /\ fetch' = [fetch EXCEPT ![c].ctx = "done"]
    /\ UNCHANGED <<pair, disk, nextDir, process, sigs>>
    /\ UNCHANGED <<probeVars, execVars, orchVars, logVars, fnVars, sessVars>>

\* go func() { <-ctx.Done(); close(cancel) }()
WatcherClose(c) ==
    /\ Running
    /\ fetch[c].watcher = "wait"
    /\ fetch[c].ctx = "done"
    /\ fetch' = [fetch EXCEPT ![c] = [CloseCancel(@) EXCEPT !.watcher = "exit"]]
    /\ process' = IF Panics(fetch[c]) THEN "panicked" ELSE process
    /\ UNCHANGED <<pair, disk, nextDir, sigs>>
    /\ UNCHANGED <<probeVars, execVars, orchVars, logVars, fnVars, sessVars>>

\* SIGINT or SIGTERM reaches the process: every channel registered with
\* signal.Notify that has room gets it
Interrupt ==
    /\ Running
    /\ sigs < MaxSignals
    /\ sigs' = sigs + 1
    /\ fetch' = [c \in DOMAIN fetch |->
                    IF fetch[c].loop # "idle" /\ fetch[c].sigCh = 0
                    THEN [fetch[c] EXCEPT !.sigCh = 1] ELSE fetch[c]]
    /\ UNCHANGED <<pair, disk, nextDir, process>>
    /\ UNCHANGED <<probeVars, execVars, orchVars, logVars, fnVars, sessVars>>

\* go func() { select { case <-sigCh: close(cancel); case <-ctx.Done(): } }()
Handler(c) ==
    /\ Running
    /\ fetch[c].handler = "wait"
    /\ \/ /\ fetch[c].sigCh = 1
          /\ fetch' = [fetch EXCEPT ![c] = [CloseCancel(@) EXCEPT !.handler = "exit", !.sigCh = 0]]
          /\ process' = IF Panics(fetch[c]) THEN "panicked" ELSE process
       \/ /\ fetch[c].ctx = "done"
          /\ fetch' = [fetch EXCEPT ![c].handler = "exit"]
          /\ process' = process
    /\ UNCHANGED <<pair, disk, nextDir, sigs>>
    /\ UNCHANGED <<probeVars, execVars, orchVars, logVars, fnVars, sessVars>>

\* the select loop of FetchTaskLogs returns: frames closed (by the stream's end
\* or after cancel was closed), an error on errCh, or ctx.Done(); the caller
\* then runs its deferred cancel() and CaptureSnapshot goes on to the archive
LoopReturns(c) ==
    /\ Running
    /\ fetch[c].loop = "running"
    /\ fetch' = [fetch EXCEPT ![c].loop = "returned", ![c].ctx = "done"]
    /\ pair' = [pair EXCEPT ![c].pc = "bundle"]
    /\ UNCHANGED <<disk, nextDir, process, sigs>>
    /\ UNCHANGED <<probeVars, execVars, orchVars, logVars, fnVars, sessVars>>

\* createTarGz(tarFilePath, tempDir): os.Create truncates an existing file
Archive(c) ==
    /\ Running
    /\ pair[c].pc = "bundle"
    /\ \E ok \in BOOLEAN :
        /\ disk' = IF ok THEN (TarFilePath(pair[c].out, pair[c].id) :> c) @@ disk ELSE disk
        /\ pair' = [pair EXCEPT ![c].pc = "return", ![c].archived = ok]
    /\ UNCHANGED <<nextDir, fetch, process, sigs>>
    /\ UNCHANGED <<probeVars, execVars, orchVars, logVars, fnVars, sessVars>>

\* return, with the deferred os.RemoveAll(tempDir)
PairReturn(c) ==
    /\ Running
    /\ pair[c].pc = "return"
    /\ disk' = [q \in DOMAIN disk \ {pair[c].dir} |-> disk[q]]
    /\ pair' = [pair EXCEPT ![c].pc = "done"]
    /\ UNCHANGED <<nextDir, fetch, process, sigs>>
    /\ UNCHANGED <<probeVars, execVars, orchVars, logVars, fnVars, sessVars>>

(***************************************************************************)
(* Inputs.                                                                 *)
(***************************************************************************)
TaskOrders == UNION {[1..n -> Tasks] : n \in 0..MaxOrderLen}

\* a task's tools: those in avail answer (0, nil), the others all fail alike
EnvOf(avail, mode) ==
    [t \in Tasks |-> [m \in Methods |-> IF m \in avail[t] THEN RespOK ELSE mode[t]]]

DistrolessTask == [m \in Methods |-> RespNotFound]

\* ProbeHTTPCapability alone: any response of any of the five probe commands
InitProbe ==
    /\ FnIdle
    /\ SessIdle
    /\ pTask \in Tasks
    /\ execResponses \in {[t \in Tasks |-> IF t = pTask THEN r ELSE DistrolessTask] :
                            r \in [Methods -> RespChoices]}
    /\ allocIDLen = UUIDLen
    /\ taskOrder = <<>>
    /\ pResult = NoProbe
    /\ rpc = "idle"
    /\ rIdx = 1
    /\ tried = <<>>
    /\ rResult = NoResult
    /\ execLog = <<>>
    /\ probeOK = {}
    /\ OrchIdle

\* ResolveExecStrategy: any tool set per task, any task order
InitResolve ==
    /\ FnIdle
    /\ SessIdle
    /\ pTask = ""
    /\ execResponses \in {EnvOf(avail, mode) :
                            avail \in [Tasks -> SUBSET Methods],
                            mode \in [Tasks -> {RespExit1, RespNotFound}]}
    /\ allocIDLen \in AllocIDLens
    /\ taskOrder \in TaskOrders
    /\ pResult = NoProbe
    /\ rpc = "loop"
    /\ rIdx = 1
    /\ tried = <<>>
    /\ rResult = NoResult
    /\ execLog = <<>>
    /\ probeOK = {}
    /\ OrchIdle

\* endpoint lists of the capture inputs
EndpointLists == UNION {[1..n -> {"/clusters", "/stats"}] : n \in 0..MaxEndpoints}

\* CaptureSnapshot without log streams to start: the task name is blank
InitAdmin ==
    /\ FnIdle
    /\ SessIdle
    /\ execResponses = [t \in Tasks |-> DistrolessTask]
    /\ allocIDLen \in AllocIDLens
    /\ taskOrder = <<>>
    /\ pTask = ""
    /\ pResult = NoProbe
    /\ rpc = "idle"
    /\ rIdx = 1
    /\ tried = <<>>
    /\ rResult = NoResult
    /\ execLog = <<>>
    /\ probeOK = {}
    /\ config \in {[impl |-> im, AllocIP |-> ip, TaskName |-> "", SidecarTask |-> SidecarName,
                     Endpoints |-> eps, ExtraLogs |-> <<>>, EnableTrace |-> tr,
                     TcpdumpEnabled |-> td, SkipLogLevelReset |-> sk] :
                        im \in {"http_first", "exec_only"}, ip \in {"", "10.0.0.5"},
                        eps \in EndpointLists, tr \in BOOLEAN, td \in BOOLEAN, sk \in BOOLEAN}
    /\ config.impl = "exec_only" => config.AllocIP = ""
    \* the five default endpoints are fetched without tcpdump and trace
    /\ config.Endpoints = <<>> => ~config.TcpdumpEnabled /\ ~config.EnableTrace
    /\ endpoints = <<>>
    /\ cpc = "start"
    /\ ret = "none"
    /\ tempDir = "none"
    /\ files = NoFiles
    /\ archive = NoArchive
    /\ epIdx = 0
    /\ call = NoCall
    /\ events = <<>>
    /\ fetched = <<>>
    /\ pcap = [out |-> "none", written |-> FALSE]
    /\ tasksToLog = <<>>
    /\ logResults = 0
    /\ joined = 0
    /\ unit = <<>>
    /\ sub = <<>>

NextProbe == Probe
SpecProbe == InitProbe /\ [][NextProbe]_vars

NextResolve == ResolveLoopStep \/ ResolveFail
SpecResolve == InitResolve /\ [][NextResolve]_vars

\* ResolveExecStrategy called again after the tools of the tasks changed
InitResolveAgain ==
    /\ FnIdle
    /\ SessIdle
    /\ pTask = ""
    /\ execResponses \in ToolEnvs
    /\ allocIDLen \in AllocIDLens
    /\ taskOrder \in TaskOrders
    /\ pResult = NoProbe
    /\ rpc = "loop"
    /\ rIdx = 1
    /\ tried = <<>>
    /\ rResult = NoResult
    /\ execLog = <<>>
    /\ probeOK = {}
    /\ OrchIdle
NextResolveAgain == ResolveLoopStep \/ ResolveFail \/ ResolveAgain
SpecResolveAgain == InitResolveAgain /\ [][NextResolveAgain]_vars

NextAdmin ==
    \/ Begin
    \/ LaunchLogStreams
    \/ DirectPOST
    \/ ExecPOST
    \/ RaiseReturned
    \/ Tcpdump
    \/ DirectGET
    \/ ExecGET
    \/ StoreEndpoint
    \/ JoinRecv
    \/ Bundle
    \/ Return
SpecAdmin == InitAdmin /\ [][NextAdmin]_vars

\* CaptureSnapshot with the log stream of the primary task: one endpoint, no
\* IP, no tcpdump, no reset
InitLogs ==
    /\ FnIdle
    /\ SessIdle
    /\ execResponses = [t \in Tasks |-> DistrolessTask]
    /\ allocIDLen = UUIDLen
    /\ taskOrder = <<>>
    /\ pTask = ""
    /\ pResult = NoProbe
    /\ rpc = "idle"
    /\ rIdx = 1
    /\ tried = <<>>
    /\ rResult = NoResult
    /\ execLog = <<>>
    /\ probeOK = {}
    /\ config \in {[impl |-> im, AllocIP |-> "", TaskName |-> PrimaryName,
                     SidecarTask |-> SidecarName, Endpoints |-> <<"/stats">>,
                     ExtraLogs |-> ex, EnableTrace |-> FALSE,
                     TcpdumpEnabled |-> FALSE, SkipLogLevelReset |-> TRUE] :
                        im \in {"http_first", "exec_only"}, ex \in {<<>>, <<PrimaryName>>}}
    /\ endpoints = <<>>
    /\ cpc = "start"
    /\ ret = "none"
    /\ tempDir = "none"
    /\ files = NoFiles
    /\ archive = NoArchive
    /\ epIdx = 0
    /\ call = NoCall
    /\ events = <<>>
    /\ fetched = <<>>
    /\ pcap = [out |-> "none", written |-> FALSE]
    /\ tasksToLog = <<>>
    /\ logResults = 0
    /\ joined = 0
    /\ unit = <<>>
    /\ sub = <<>>

NextLogs ==
    \/ Begin
    \/ LaunchLogStreams
    \/ ExecPOST
    \/ RaiseReturned
    \/ ExecGET
    \/ StoreEndpoint
    \/ JoinRecv
    \/ Bundle
    \/ Return
    \/ UnitStart
    \/ UnitCreateStderr
    \/ Deadline
    \/ UnitRecvDone
    \/ UnitCtxDone
    \/ UnitWaitSecond
    \/ UnitGrace
    \/ UnitWriteFile
    \/ UnitSignal
    \/ SubInfo
    \/ SubFrame
    \/ SubWriteEnd
    \/ SubStreamEnd
    \/ SubCtxDone
    \/ SubStderrAppend
    \/ SubSend
SpecLogs == InitLogs /\ [][NextLogs]_vars

\* CaptureSnapshot with blank and named entries in its log task list: at most
\* one entry names a task
JoinInputs ==
    {[TaskName |-> "", ExtraLogs |-> <<>>],
     [TaskName |-> "", ExtraLogs |-> <<"">>],
     [TaskName |-> "", ExtraLogs |-> <<PrimaryName>>],
     [TaskName |-> PrimaryName, ExtraLogs |-> <<"", PrimaryName>>]}
InitJoin ==
    /\ FnIdle
    /\ SessIdle
    /\ execResponses = [t \in Tasks |-> DistrolessTask]
    /\ allocIDLen = UUIDLen
    /\ taskOrder = <<>>
    /\ pTask = ""
    /\ pResult = NoProbe
    /\ rpc = "idle"
    /\ rIdx = 1
    /\ tried = <<>>
    /\ rResult = NoResult
    /\ execLog = <<>>
    /\ probeOK = {}
    /\ \E im \in {"http_first", "exec_only"}, in \in JoinInputs :
        config = [impl |-> im, AllocIP |-> "", TaskName |-> in.TaskName,
                  SidecarTask |-> SidecarName, Endpoints |-> <<"/stats">>,
                  ExtraLogs |-> in.ExtraLogs, EnableTrace |-> FALSE,
                  TcpdumpEnabled |-> FALSE, SkipLogLevelReset |-> TRUE]
    /\ endpoints = <<>>
    /\ cpc = "start"
    /\ ret = "none"
    /\ tempDir = "none"
    /\ files = NoFiles
    /\ archive = NoArchive
    /\ epIdx = 0
    /\ call = NoCall
    /\ events = <<>>
    /\ fetched = <<>>
    /\ pcap = [out |-> "none", written |-> FALSE]
    /\ tasksToLog = <<>>
    /\ logResults = 0
    /\ joined = 0
    /\ unit = <<>>
    /\ sub = <<>>
SpecJoin == InitJoin /\ [][NextLogs]_vars

\* The calls of the orchestrator return, the timers fire and the goroutines
\* that run streamLogsWithTimeout / streamLogsToFiles are scheduled.  Nothing
\* is assumed of the FetchTaskLogs goroutines: the log source may never end
\* and they may never see the cancellation.
FairLogs ==
    /\ WF_vars(Begin \/ LaunchLogStreams \/ ExecPOST \/ RaiseReturned \/ ExecGET
                \/ StoreEndpoint \/ JoinRecv \/ Bundle \/ Return)
    /\ WF_vars(UnitStart \/ UnitCreateStderr)
    /\ WF_vars(Deadline)
    /\ WF_vars(UnitRecvDone \/ UnitCtxDone)
    /\ WF_vars(UnitWaitSecond \/ UnitGrace)
    /\ WF_vars(UnitWriteFile \/ UnitSignal)
SpecLogsFair == InitLogs /\ [][NextLogs]_vars /\ FairLogs

(***************************************************************************)
(* Inputs of the functions called on their own.                            *)
(***************************************************************************)
ProbeIdle ==
    /\ execResponses = [t \in Tasks |-> DistrolessTask]
    /\ allocIDLen = UUIDLen
    /\ taskOrder = <<>>
    /\ pTask = ""
    /\ pResult = NoProbe
    /\ rpc = "idle"
    /\ rIdx = 1
    /\ tried = <<>>
    /\ rResult = NoResult
    /\ execLog = <<>>
    /\ probeOK = {}

\* chunk payloads: those of the test table, one of ten bytes (length line "a")
\* and one that is itself a CRLF
Hello == <<"h", "e", "l", "l", "o">>
World == <<" ", "w", "o", "r", "l", "d">>
TenBytes == <<"0", "1", "2", "3", "4", "5", "6", "7", "8", "9">>
Payloads == {Hello, World, TenBytes, CRLF}
PayloadLists == UNION {[1..n -> Payloads] : n \in 0..MaxChunks}

\* the test table's input that is not chunked: {"stats": "data"}
StatsJSON == <<"{", "\"", "s", "t", "a", "t", "s", "\"", ":", " ",
               "\"", "d", "a", "t", "a", "\"", "}">>
\* first lines that are no hex number, with and without a line end
RawInputs == {StatsJSON, StatsJSON \o CRLF, <<"x", "y">> \o CRLF \o Hello \o CRLF, CRLF \o Hello}

HexDigit(n) ==
    CASE n < 10 -> <<"0", "1", "2", "3", "4", "5", "6", "7", "8", "9">>[n + 1]
      [] OTHER -> <<"a", "b", "c", "d", "e", "f">>[n - 9]

RECURSIVE HexStr(_)
HexStr(n) == IF n < 16 THEN <<HexDigit(n)>> ELSE HexStr(n \div 16) \o <<HexDigit(n % 16)>>

\* one chunk on the wire: hex length line, payload, CRLF
EncodeChunk(p) == HexStr(Len(p)) \o CRLF \o p \o CRLF

RECURSIVE EncodeChunks(_)
EncodeChunks(ps) == IF ps = <<>> THEN <<>> ELSE EncodeChunk(Head(ps)) \o EncodeChunks(Tail(ps))

\* a chunked body: the chunks, then the zero-length chunk
Encode(ps) == EncodeChunks(ps) \o <<"0">> \o CRLF \o CRLF

RECURSIVE Concat(_)
Concat(ps) == IF ps = <<>> THEN <<>> ELSE Head(ps) \o Concat(Tail(ps))

\* decodeChunked on a chunked body, on the first cut bytes of one, and on
\* input that is not chunked
InitDecode ==
    /\ ProbeIdle
    /\ OrchIdle
    /\ SessIdle
    /\ \/ \E ps \in PayloadLists :
            /\ chunks = [kind |-> "framed", payloads |-> ps, cut |-> Len(Encode(ps))]
            /\ data = Encode(ps)
       \/ \E ps \in PayloadLists : \E k \in 0..(Len(Encode(ps)) - 1) :
            /\ chunks = [kind |-> "cut", payloads |-> ps, cut |-> k]
            /\ data = SubSeq(Encode(ps), 1, k)
       \/ \E raw \in RawInputs :
            /\ chunks = [kind |-> "raw", payloads |-> <<>>, cut |-> 0]
            /\ data = raw
    /\ decoded = [done |-> FALSE, out |-> <<>>]
    /\ GETIdle
    /\ BuildIdle
    /\ OrderIdle

NextDecode == Decode
SpecDecode == InitDecode /\ [][NextDecode]_vars

\* the method of the tests that is outside the enumeration: HTTPMethod(99)
UnknownMethod == 99
\* the admin port of the package and the port of the golden-value tests
EnvoyAdminPort == 19000
TestPort == 19001
AdminPaths == {"/stats", "/config_dump", "/clusters", "/logging?level=debug"}

\* BuildGETCommand and BuildPOSTCommand on any method, port and path
InitBuild ==
    /\ ProbeIdle
    /\ OrchIdle
    /\ SessIdle
    /\ DecodeIdle
    /\ GETIdle
    /\ bArgs \in [method : Methods \cup {UnknownMethod}, port : {EnvoyAdminPort, TestPort},
                  path : AdminPaths]
    /\ getCmd = [done |-> FALSE, cmd |-> <<>>]
    /\ postCmd = [done |-> FALSE, cmd |-> <<>>]
    /\ OrderIdle

NextBuild == BuildGET \/ BuildPOST
SpecBuild == InitBuild /\ [][NextBuild]_vars

\* the mocked response of the scenario: {"ok":true}
OkJSON == <<"{", "\"", "o", "k", "\"", ":", "t", "r", "u", "e", "}">>
\* status line and one header line of a raw-socket response, ended by a blank line
ResponseHead ==
    <<"H", "T", "T", "P", "/", "1", ".", "1", " ", "2", "0", "0", " ", "O", "K">> \o CRLF
        \o <<"T", "E", ":", "c">> \o CRLF \o CRLF
ResponseBodies ==
    {OkJSON, StatsJSON, <<>>} \cup {Encode(ps) : ps \in PayloadLists}
        \cup {SubSeq(Encode(<<Hello, World>>), 1, 16)}

\* EnvoyAdminGET of the mock: any strategy, one stored response under any key,
\* its standard output a body with or without the response head
InitGET ==
    /\ ProbeIdle
    /\ OrchIdle
    /\ SessIdle
    /\ \E h \in BOOLEAN, b \in ResponseBodies :
        /\ chunks = [kind |-> "response", head |-> h, body |-> b]
        /\ data = (IF h THEN ResponseHead ELSE <<>>) \o b
    /\ decoded = [done |-> FALSE, out |-> <<>>]
    /\ strategy \in [Method : Methods, Task : Tasks]
    /\ mockResp \in [task : {PrimaryName}, cmd0 : {"curl", "node", "bash"}, exitCode : {0, 1},
                     stdout : {data}, err : {"nil", "exec failed"}]
    /\ getResult = [done |-> FALSE, body |-> <<>>, err |-> "nil"]
    /\ bArgs = [method |-> strategy.Method, port |-> EnvoyAdminPort, path |-> "/stats"]
    /\ getCmd = [done |-> FALSE, cmd |-> <<>>]
    /\ postCmd = [done |-> FALSE, cmd |-> <<>>]
    /\ OrderIdle

NextGET == EnvoyAdminGET
SpecGET == InitGET /\ [][NextGET]_vars

\* task names of TestBuildTaskOrder, the blank name among them
OrderNames == {"", SidecarName, PrimaryName, "redis", "postgres"}
ExtraLists == UNION {[1..n -> OrderNames] : n \in 0..MaxExtras}

\* buildTaskOrder on any sidecar, task and extra names
InitTaskOrder ==
    /\ ProbeIdle
    /\ OrchIdle
    /\ SessIdle
    /\ DecodeIdle
    /\ GETIdle
    /\ BuildIdle
    /\ btoArgs \in [sidecar : OrderNames, primary : OrderNames, extras : ExtraLists]
    /\ btoResult = [done |-> FALSE, order |-> <<>>]

NextTaskOrder == BuildTaskOrderCall
SpecTaskOrder == InitTaskOrder /\ [][NextTaskOrder]_vars

\* ExtraLogs of the capture inputs: blank names, the task itself and repeated
\* names among them
LogExtraLists == UNION {[1..n -> {"", PrimaryName, SidecarName}] : n \in 0..MaxExtras}

\* CaptureSnapshot up to the start of its log goroutines, on any task name
\* and any list of extra log tasks
InitLaunch ==
    /\ FnIdle
    /\ SessIdle
    /\ ProbeIdle
    /\ config \in {[impl |-> im, AllocIP |-> "", TaskName |-> tn,
                     SidecarTask |-> SidecarName, Endpoints |-> <<"/stats">>,
                     ExtraLogs |-> ex, EnableTrace |-> FALSE,
                     TcpdumpEnabled |-> FALSE, SkipLogLevelReset |-> TRUE] :
                        im \in {"http_first", "exec_only"},
                        tn \in {"", PrimaryName, SidecarName}, ex \in LogExtraLists}
    /\ endpoints = <<>>
    /\ cpc = "start"
    /\ ret = "none"
    /\ tempDir = "none"
    /\ files = NoFiles
    /\ archive = NoArchive
    /\ epIdx = 0
    /\ call = NoCall
    /\ events = <<>>
    /\ fetched = <<>>
    /\ pcap = [out |-> "none", written |-> FALSE]
    /\ tasksToLog = <<>>
    /\ logResults = 0
    /\ joined = 0
    /\ unit = <<>>
    /\ sub = <<>>

NextLaunch == Begin \/ LaunchLogStreams \/ UnitStart
SpecLaunch == InitLaunch /\ [][NextLaunch]_vars

\* FindConnectAllocationsByService: two allocations, one per Consul service,
\* in any state; any failure of the catalog and the list query
AllocIDs == {"alloc-web", "alloc-api"}
ServiceOf(a) == IF a = "alloc-web" THEN "web" ELSE "api"
AllocStates == [Namespace : {"default", "other"}, inConsul : BOOLEAN, running : BOOLEAN,
                connect : BOOLEAN, info : BOOLEAN]
InitFind ==
    /\ FnIdle
    /\ ProbeIdle
    /\ OrchIdle
    /\ ResolveOnce
    /\ CommandIdle
    /\ ConcIdle
    /\ \E st \in [AllocIDs -> AllocStates], ce \in BOOLEAN, le \in BOOLEAN :
        cluster = [catalogErr |-> ce, listErr |-> le,
                   allocs |-> [a \in AllocIDs |->
                                [svc |-> ServiceOf(a), Namespace |-> st[a].Namespace,
                                 inConsul |-> st[a].inConsul, running |-> st[a].running,
                                 connect |-> st[a].connect, info |-> st[a].info]]]
    /\ findArgs \in [namespace : {"", "default"}, serviceName : {"", "web", "api", "db"}]
    /\ found = NoFound
NextFind == Find
SpecFind == InitFind /\ [][NextFind]_vars

\* two concurrent CaptureSnapshot calls for different allocations, whose IDs
\* may share their first eight characters, into the same or different
\* output directories
PairAllocIDs == [short : {"aaaaaaaa", "bbbbbbbb"}, rest : {"-1", "-2"}]
OutputDirs == {"out", "out2"}
InitPair ==
    /\ FnIdle
    /\ ProbeIdle
    /\ OrchIdle
    /\ ResolveOnce
    /\ CommandIdle
    /\ FindIdle
    /\ \E ids \in [CallIDs -> PairAllocIDs], outs \in [CallIDs -> OutputDirs] :
        /\ ids[1] # ids[2]
        /\ pair = [c \in CallIDs |-> [id |-> ids[c], out |-> outs[c], pc |-> "start",
                                      dir |-> <<>>, archived |-> FALSE]]
    /\ disk = NoDisk
    /\ nextDir = 0
    /\ fetch = [c \in CallIDs |-> NoFetch]
    /\ process = "running"
    /\ sigs = 0
NextPair ==
    \/ Interrupt
    \/ \E c \in CallIDs :
        \/ PairBegin(c) \/ CtxDone(c) \/ WatcherClose(c) \/ Handler(c) \/ LoopReturns(c)
        \/ Archive(c) \/ PairReturn(c)
SpecPair == InitPair /\ [][NextPair]_vars

\* the capture command: any --repeat up to MaxRepeat, --duration 0 or its
\* default, any list of allocations with or without a detected sidecar
DefaultDuration == 60
AllocLists == UNION {[1..n -> {SidecarName, ""}] : n \in 0..MaxAllocs}
InitCommand ==
    /\ FnIdle
    /\ ProbeIdle
    /\ OrchIdle
    /\ ResolveOnce
    /\ FindIdle
    /\ ConcIdle
    /\ opts \in [repeat : 0..MaxRepeat, duration : {0, DefaultDuration}, trace : BOOLEAN,
                 allocs : AllocLists]
    /\ lpc = "start"
    /\ captures = 0
    /\ startTime = "zero"
    /\ elapsed = FALSE
    /\ aIdx = 0
    /\ snapSkip = FALSE
    /\ lastLevel = [i \in 1..Len(opts.allocs) |-> "none"]
NextCommand ==
    \/ RunStart \/ LoopTop \/ MkdirAll \/ Continue \/ AllocStep \/ CaptureReturns \/ AllocsDone
    \/ Sleep \/ Elapse
SpecCommand == InitCommand /\ [][NextCommand]_vars
\* the goroutine of Run takes its steps and the clock advances
FairCommand ==
    /\ WF_vars(RunStart \/ LoopTop \/ MkdirAll \/ Continue \/ AllocStep \/ CaptureReturns
                \/ AllocsDone \/ Sleep)
    /\ WF_vars(Elapse)
SpecCommandFair == SpecCommand /\ FairCommand

(***************************************************************************)
(* What the claims speak of.                                               *)
(***************************************************************************)
Success(r) == ~r.err /\ r.exitCode = 0
Capable(t) == \E m \in Methods : Success(execResponses[t][m])
\* the fixed preference order curl > wget > python3 > node > bash
PreferenceOrder == <<MethodCurl, MethodWget, MethodPython3, MethodNode, MethodBashTCP>>
Rank(m) == CHOOSE k \in 1..Len(PreferenceOrder) : PreferenceOrder[k] = m
BestMethod(t) ==
    CHOOSE m \in Methods :
        /\ Success(execResponses[t][m])
        /\ \A m2 \in Methods : Success(execResponses[t][m2]) => Rank(m) <= Rank(m2)
FirstCapable ==
    CHOOSE i \in 1..Len(taskOrder) :
        /\ Capable(taskOrder[i])
        /\ \A j \in 1..(i - 1) : ~Capable(taskOrder[j])
SomeCapable == \E i \in 1..Len(taskOrder) : Capable(taskOrder[i])

\* C1: once ResolveExecStrategy has returned and some task of taskOrder is
\* capable, the result is the first capable task of taskOrder with that task's
\* most preferred working method, whatever later tasks offer.
C1_FirstCapableTaskWins ==
    (rpc = "returned" /\ SomeCapable) =>
        /\ rResult.status = "ok"
        /\ rResult.Task = taskOrder[FirstCapable]
        /\ rResult.Method = BestMethod(taskOrder[FirstCapable])

\* C1 witness: the first task was chosen with a weak method although the
\* second task offers a more preferred one.
C1_Witness ==
    /\ rpc = "returned"
    /\ rResult.status = "ok"
    /\ Len(taskOrder) = 2
    /\ taskOrder[1] # taskOrder[2]
    /\ rResult.Task = taskOrder[1]
    /\ rResult.Method = MethodBashTCP
    /\ Capable(taskOrder[2])
    /\ BestMethod(taskOrder[2]) = MethodCurl

\* C2: ProbeHTTPCapability returns the first method of the preference order
\* whose probe command gave no transport error and exit code 0; failing
\* candidates are skipped; it returns (0, false) exactly when all fail.
C2_ProbeFirstWorkingMethod ==
    pResult.called =>
        /\ pResult.ok <=> Capable(pTask)
        /\ pResult.ok => pResult.Method = BestMethod(pTask)
        /\ ~pResult.ok => pResult.Method = 0

\* C2 witness: curl failed in transport, wget exited non-zero, python3 was
\* returned although node and bash work as well.
C2_Witness ==
    /\ pResult.called
    /\ pResult.ok
    /\ pResult.Method = MethodPython3
    /\ execResponses[pTask][MethodCurl] = RespNotFound
    /\ execResponses[pTask][MethodWget] = RespExit1
    /\ Success(execResponses[pTask][MethodNode])
    /\ Success(execResponses[pTask][MethodBashTCP])

\* C4: ResolveExecStrategy does not succeed exactly when no task of taskOrder
\* is capable (an empty taskOrder included); a returned error names every
\* task of taskOrder in order; a success carries no error.
C4_FailsIffNoCapableTask ==
    rpc = "returned" =>
        /\ (rResult.status # "ok") <=> ~SomeCapable
        /\ rResult.status = "error" => rResult.tried = taskOrder
        /\ rResult.status = "ok" => rResult.tried = <<>>

\* C4 witness: two different incapable tasks were probed and the error names both.
C4_Witness ==
    /\ rpc = "returned"
    /\ rResult.status = "error"
    /\ Len(taskOrder) = 2
    /\ taskOrder[1] # taskOrder[2]
    /\ rResult.tried = taskOrder

\* the requests of one setEnvoyLogLevel / fetchEnvoyEndpoint call
Attempts(c) == c.direct + c.exec
Returned(c) == c.result \notin {"none", "pending"}
Expected == IF Len(config.Endpoints) = 0 THEN DefaultEndpoints ELSE config.Endpoints
FetchedEndpoints == [i \in 1..Len(fetched) |-> fetched[i].endpoint]
FetchCalls == SelectSeq(events, LAMBDA e : e.op = "fetchEnvoyEndpoint")
IsPrefix(a, b) == Len(a) <= Len(b) /\ \A i \in 1..Len(a) : a[i] = b[i]
EndpointLoopDone ==
    \/ cpc \in {"join", "reset", "return"}
    \/ cpc = "done" /\ ret \in {"nil", "error: failed to create tar.gz file"}
IsAdminExec(e) == e.cmd # TcpdumpCommand

\* C3: every exec-based admin GET or POST of a capture call runs in a task and
\* with a method whose availability probe succeeded earlier in that call.
C3_ExecOnlyAfterProbe ==
    \A i \in 1..Len(execLog) :
        IsAdminExec(execLog[i]) => <<execLog[i].task, MethodCurl>> \in probeOK

\* C5: with the allocation IP known, fetchEnvoyEndpoint makes at most three
\* direct GET attempts; every attempt is either the error-free non-empty one
\* or a failed one (error or empty body); the successful attempt is the last
\* direct attempt, is returned as the result, and no exec call follows it.
C5_DirectGETStopsAtFirstSuccess ==
    (call.op = "GET" /\ HasIP) =>
        /\ call.direct <= maxRetries
        /\ call.direct = call.directOK + call.failed
        /\ call.fails \subseteq {"empty", "err"}
        /\ call.directOK <= 1
        /\ call.directOK = 1 =>
            /\ call.direct = call.failed + 1
            /\ call.exec = 0
            /\ call.result = "data"
            /\ call.via = "direct"

\* C5 witness: the third direct attempt succeeded after an error and an empty body.
C5_Witness ==
    /\ call.op = "GET"
    /\ HasIP
    /\ call.direct = maxRetries
    /\ call.fails = {"empty", "err"}
    /\ call.directOK = 1
    /\ call.result = "data"
    /\ call.exec = 0

\* C6: a returned endpoint GET whose direct attempts all failed with an IP set
\* made exactly three direct attempts and exactly one exec attempt; without an
\* IP it made no direct attempt and exactly one exec attempt; no GET ever makes
\* more than one exec attempt.
C6_ThreeDirectThenOneExec ==
    call.op = "GET" =>
        /\ call.exec <= 1
        /\ (Returned(call) /\ HasIP /\ call.directOK = 0) =>
                call.direct = maxRetries /\ call.exec = 1 /\ Attempts(call) = maxRetries + 1
        /\ (Returned(call) /\ ~HasIP) => call.direct = 0 /\ call.exec = 1
        /\ (call.exec = 1 /\ HasIP) => call.direct = maxRetries /\ call.directOK = 0

\* C6 witness: three failed direct attempts, then the exec attempt returned data.
C6_Witness ==
    /\ call.op = "GET"
    /\ HasIP
    /\ call.direct = maxRetries
    /\ call.failed = maxRetries
    /\ call.exec = 1
    /\ call.via = "exec"
    /\ call.result = "data"

\* C7: setEnvoyLogLevel makes at most one direct POST, and only with an IP
\* known; it makes exactly one exec POST when the direct one failed or there is
\* no IP, and none after a successful direct POST.
C7_VerbosityPOSTNeverRetries ==
    call.op = "POST" =>
        /\ call.direct <= 1
        /\ call.exec <= 1
        /\ call.direct = 1 => HasIP
        /\ call.directOK = 1 => call.exec = 0 /\ call.result = "ok" /\ call.via = "direct"
        /\ call.exec = 1 => (~HasIP \/ (call.direct = 1 /\ call.directOK = 0))
        /\ Returned(call) =>
            /\ HasIP => call.direct = 1
            /\ call.directOK = 0 => call.exec = 1

\* C7 witness: the reset POST failed directly and was sent once through exec.
C7_Witness ==
    /\ call.op = "POST"
    /\ cpc = "reset"
    /\ HasIP
    /\ call.direct = 1
    /\ call.directOK = 0
    /\ call.exec = 1
    /\ call.result = "ok"

\* C8: the endpoints fetched so far are a prefix of the configured list (the
\* five defaults when none is configured), each position fetched once, and
\* when the endpoint loop is over all of them have been fetched in order,
\* whatever the outcome of the earlier ones.
C8_EveryEndpointFetchedOnce ==
    /\ IsPrefix(FetchedEndpoints, Expected)
    /\ IsPrefix(FetchCalls, [i \in 1..Len(Expected) |->
                                [op |-> "fetchEnvoyEndpoint", arg |-> Expected[i], sent |-> 0]])
    /\ Len(fetched) <= Len(FetchCalls)
    /\ EndpointLoopDone => FetchedEndpoints = Expected /\ Len(FetchCalls) = Len(Expected)

\* C8 witness: no endpoint configured; the first default endpoint failed, the
\* second came back empty, and all five were fetched.
C8_Witness ==
    /\ cpc = "join"
    /\ config.Endpoints = <<>>
    /\ Len(fetched) = 5
    /\ fetched[1].result = "err"
    /\ fetched[2].result = "empty"
    /\ fetched[5].result = "data"

\* C9: whenever captureTcpdump or fetchEnvoyEndpoint is called, the raising
\* setEnvoyLogLevel call was made before it and has returned after sending
\* its request.
C9_RaiseBeforeTcpdumpAndFetch ==
    \A i \in 1..Len(events) :
        events[i].op \in {"captureTcpdump", "fetchEnvoyEndpoint"} =>
            /\ i > 2
            /\ events[1].op = "setEnvoyLogLevel"
            /\ events[1].arg \in {LoggingPath("debug"), LoggingPath("trace")}
            /\ events[2].op = "returned"
            /\ events[2].arg = events[1].arg
            /\ events[2].sent >= 1

\* C9 witness: tcpdump and the first endpoint fetch were both called.
C9_Witness ==
    /\ cpc = "fetch"
    /\ config.TcpdumpEnabled
    /\ Len(events) = 4
    /\ events[3].op = "captureTcpdump"
    /\ events[4].op = "fetchEnvoyEndpoint"

\* the join loop is over: createTarGz is the next statement
BundlingStarts == cpc = "join" /\ joined >= Len(tasksToLog)
\* a FetchTaskLogs goroutine inside a write to its file of tempDir
WritesFile(i, s) == sub[i][s].pc = "writing"
\* a log goroutine that has not sent its signal yet
UnitRunning(i) == unit[i].pc \notin {"none", "gone"}

\* C10: when bundling starts every endpoint fetch has returned, every entry of
\* tasksToLog has been joined, no log goroutine is still running and no
\* FetchTaskLogs goroutine is still writing to a file of the working directory.
C10_NoWriterWhenBundling ==
    BundlingStarts =>
        /\ Len(fetched) = Len(endpoints)
        /\ joined = Len(tasksToLog)
        /\ \A i \in DOMAIN unit :
            /\ ~UnitRunning(i)
            /\ \A s \in Streams : ~WritesFile(i, s)

\* the setEnvoyLogLevel calls of the capture call, by level
RaiseCalls ==
    SelectSeq(events, LAMBDA e : e.op = "setEnvoyLogLevel" /\ e.arg # LoggingPath("info"))
ResetCalls ==
    SelectSeq(events, LAMBDA e : e.op = "setEnvoyLogLevel" /\ e.arg = LoggingPath("info"))

\* C11: a capture call that raised the verbosity and has ended made exactly one
\* reset call (level=info) when SkipLogLevelReset is false and none when it is
\* true; no call ever makes more than one.
C11_ResetExactlyOnceUnlessSkipped ==
    /\ Len(ResetCalls) <= 1
    /\ (cpc = "done" /\ Len(RaiseCalls) > 0) =>
            Len(ResetCalls) = IF config.SkipLogLevelReset THEN 0 ELSE 1

MkdirError == "error: failed to create temporary directory"
TarError == "error: failed to create tar.gz file"
IsError(r) == r \notin {"none", "nil", "panic"}

C13_WorkDirGoneAfterReturn ==
    /\ [](cpc = "done" =>
            /\ tempDir # "exists"
            /\ files = NoFiles
            /\ \A i \in DOMAIN unit : ~UnitRunning(i))
    /\ [][cpc = "done" => files' = files]_vars

\* C13 witness: createTarGz failed and the call returned its error while a
\* FetchTaskLogs goroutine was still inside a write; the directory is removed.
C13_Witness ==
    /\ cpc = "done"
    /\ ret = TarError
    /\ tempDir = "removed"
    /\ \E i \in DOMAIN sub : sub[i]["stdout"].pc = "writing"

\* C14: after captureTcpdump reported "not found" the call goes on: there is no
\* capture.pcap in the directory or in the archive, every endpoint is fetched,
\* the archive holds the endpoint files that were written, and the call ends
\* with nil unless createTarGz itself fails.
C14_TcpdumpNotFoundIsNotFatal ==
    pcap.out = "not found" =>
        /\ "capture.pcap" \notin DOMAIN files
        /\ "capture.pcap" \notin DOMAIN archive.files
        /\ ret \in {"none", "nil", TarError}
        /\ EndpointLoopDone => FetchedEndpoints = endpoints
        /\ archive.made =>
            \A i \in 1..Len(fetched) :
                fetched[i].written => EndpointFile(fetched[i].endpoint) \in DOMAIN archive.files
        /\ (cpc = "done" /\ ret = "nil") => archive.made

\* C14 witness: tcpdump was not found, /stats was fetched and archived, the
\* call returned nil.
C14_Witness ==
    /\ config.TcpdumpEnabled
    /\ pcap.out = "not found"
    /\ cpc = "done"
    /\ ret = "nil"
    /\ archive.made
    /\ "stats.json" \in DOMAIN archive.files


\* C15: decodeChunked on valid chunk framing (chunks of declared hex length,
\* each followed by CRLF, ended by the zero-length chunk) returns exactly the
\* payloads concatenated in order; "5\r\nhello\r\n6\r\n world\r\n0\r\n\r\n"
\* gives "hello world".
C15_ValidFramingDecodesToPayloads ==
    (decoded.done /\ chunks.kind = "framed") => decoded.out = Concat(chunks.payloads)
C15_Witness ==
    /\ decoded.done
    /\ chunks.kind = "framed"
    /\ chunks.payloads = <<Hello, World>>
    /\ data = <<"5", CR, LF, "h", "e", "l", "l", "o", CR, LF,
                "6", CR, LF, " ", "w", "o", "r", "l", "d", CR, LF, "0", CR, LF, CR, LF>>
    /\ decoded.out = <<"h", "e", "l", "l", "o", " ", "w", "o", "r", "l", "d">>

\* the chunks of an input whose length line lies within its first k bytes
RECURSIVE DeclaredIn(_, _)
DeclaredIn(ps, k) ==
    IF ps = <<>> \/ k < Len(HexStr(Len(Head(ps)))) + 2 THEN <<>>
    ELSE <<Head(ps)>> \o DeclaredIn(Tail(ps), k - Len(EncodeChunk(Head(ps))))

DeclaredChunks == DeclaredIn(chunks.payloads, chunks.cut)

\* the last declared chunk announces more bytes than the input has left
DeclaredBeyondEnd ==
    /\ DeclaredChunks # <<>>
    /\ chunks.cut < Len(EncodeChunks(DeclaredChunks)) - 2

\* the first line of the input is no hex number
FirstLineNotHex ==
    LET eol == IndexFrom(data, CRLF, 1)
    IN  \/ eol = 0
        \/ eol = 1
        \/ \E i \in 1..(eol - 1) : HexVal(data[i]) < 0

\* C16: decodeChunked never silently truncates.  On invalid framing (empty
\* input, a first line that is no hex number such as JSON, a declared length
\* larger than the bytes that remain) the output is the input unchanged, and
\* the output is always either the concatenation of all declared chunks or
\* the unchanged input.
C16_NeverTruncates ==
    decoded.done =>
        /\ (data = <<>> \/ FirstLineNotHex \/ DeclaredBeyondEnd) => decoded.out = data
        /\ decoded.out \in {Concat(DeclaredChunks), data}
C16_Witness ==
    /\ decoded.done
    /\ chunks.kind = "cut"
    /\ DeclaredBeyondEnd
    /\ data = <<"5", CR, LF, "h", "e", "l", "l", "o", CR, LF, "6", CR, LF, " ", "w", "o">>
    /\ decoded.out = data

\* the pieces of all arguments of a command
PiecesOf(cmd) == UNION {{cmd[i][j] : j \in DOMAIN cmd[i]} : i \in DOMAIN cmd}

\* how often piece p occurs in a command
Occurrences(cmd, p) ==
    Cardinality({<<i, j>> \in (DOMAIN cmd) \X (1..12) : j \in DOMAIN cmd[i] /\ cmd[i][j] = p})

\* a command with the port and the path put back to the verbs of the format
TemplateOf(cmd, port, path) ==
    [i \in DOMAIN cmd |->
        [j \in DOMAIN cmd[i] |->
            IF cmd[i][j] = PortStr(port) THEN "%d"
            ELSE IF cmd[i][j] = path THEN "%s" ELSE cmd[i][j]]]

\* program and first flag per method, as the probe table and the golden values name them
ProgramOf(method) == probeCommands[method + 1].Command[1]
FlagOf(method) ==
    CASE method = MethodCurl -> "-s" [] method = MethodWget -> "-qO-"
      [] method = MethodPython3 -> "-c" [] method = MethodNode -> "-e"
      [] method = MethodBashTCP -> "-c"

HostHeader == "Host: localhost\\r\\n"
ConnectionClose == "Connection: close\\r\\n"
ContentLengthZero == "Content-Length: 0\\r\\n"

\* what holds of the command cmd built for bArgs, post telling which builder
BuiltAsTemplate(cmd, post, reference) ==
    /\ cmd = <<>> <=> bArgs.method \notin Methods
    /\ bArgs.method \in Methods =>
        /\ cmd[1] = <<ProgramOf(bArgs.method)>>
        /\ cmd[2] = <<FlagOf(bArgs.method)>>
        /\ Len(cmd) = IF ~post THEN 3
                      ELSE IF bArgs.method = MethodCurl THEN 5
                      ELSE IF bArgs.method = MethodWget THEN 4 ELSE 3
        /\ Occurrences(cmd, PortStr(bArgs.port)) = 1
        /\ Occurrences(cmd, bArgs.path) = 1
        /\ PortStr(bArgs.port) \in PiecesOf(<<cmd[Len(cmd)]>>)
        /\ bArgs.path \in PiecesOf(<<cmd[Len(cmd)]>>)
        /\ TemplateOf(cmd, bArgs.port, bArgs.path) = TemplateOf(reference, TestPort, "/stats")
        /\ HostHeader \in PiecesOf(cmd) <=> bArgs.method = MethodBashTCP
        /\ ConnectionClose \in PiecesOf(cmd) <=> bArgs.method = MethodBashTCP
        /\ ContentLengthZero \in PiecesOf(cmd) <=> (post /\ bArgs.method = MethodBashTCP)
        /\ bArgs.method = MethodBashTCP =>
                (IF post THEN "POST " ELSE "GET ") \in PiecesOf(cmd)

\* C18: BuildGETCommand and BuildPOSTCommand return, for each of the five
\* methods, the fixed command template of that method with port and path
\* substituted (the raw-socket request carries Host and Connection: close, and
\* Content-Length: 0 for POST only), and no command for a method outside the
\* enumeration.
C18_BuildersFollowTemplates ==
    /\ getCmd.done =>
        BuiltAsTemplate(getCmd.cmd, FALSE, BuildGETCommand(bArgs.method, TestPort, "/stats"))
    /\ postCmd.done =>
        BuiltAsTemplate(postCmd.cmd, TRUE, BuildPOSTCommand(bArgs.method, TestPort, "/stats"))
C18_Witness ==
    /\ getCmd.done
    /\ postCmd.done
    /\ bArgs = [method |-> MethodBashTCP, port |-> EnvoyAdminPort, path |-> "/logging?level=debug"]
    /\ ContentLengthZero \in PiecesOf(postCmd.cmd)
    /\ ContentLengthZero \notin PiecesOf(getCmd.cmd)
    /\ "19000" \in PiecesOf(getCmd.cmd)

\* the key of the stored response is the one the strategy's command looks up
ResponseFound ==
    /\ mockResp.task = strategy.Task
    /\ mockResp.cmd0 = ProgramOf(strategy.Method)

\* C17: an exec-based GET through a strategy strips the headers (everything
\* up to and including the first CRLF CRLF, nothing when there is none) and
\* decodes chunks only when the method is raw-socket; for every other method
\* the standard output of the command is returned byte for byte.
C17_DecodeOnlyForRawSocket ==
    (getResult.done /\ getResult.err = "nil") =>
        /\ strategy.Method # MethodBashTCP => getResult.body = mockResp.stdout
        /\ (strategy.Method = MethodBashTCP /\ chunks.head) =>
                getResult.body = decodeChunked(chunks.body)
        /\ (strategy.Method = MethodBashTCP /\ IndexFrom(mockResp.stdout, CRLF \o CRLF, 1) = 0) =>
                getResult.body = decodeChunked(mockResp.stdout)
C17_Witness ==
    /\ getResult.done
    /\ getResult.err = "nil"
    /\ strategy = [Method |-> MethodCurl, Task |-> PrimaryName]
    /\ ResponseFound
    /\ mockResp.stdout = OkJSON
    /\ getResult.body = OkJSON
C17_WitnessRawSocket ==
    /\ getResult.done
    /\ getResult.err = "nil"
    /\ strategy.Method = MethodBashTCP
    /\ chunks.head
    /\ chunks.body = Encode(<<Hello, World>>)
    /\ getResult.body = Hello \o World

\* the names handed to buildTaskOrder in the order [sidecar, primary, extras...]
Candidates == <<btoArgs.sidecar, btoArgs.primary>> \o btoArgs.extras

\* position of the first occurrence of a name among the candidates
FirstAt(name) == CHOOSE i \in DOMAIN Candidates :
                    /\ Candidates[i] = name
                    /\ \A j \in 1..(i - 1) : Candidates[j] # name

\* C19: buildTaskOrder(sidecar, primary, extras) is [sidecar, primary,
\* extras...] without the blank names and without every later occurrence of a
\* name already listed, in the order of first occurrence; sidecar == primary
\* gives one entry, all-blank input the empty list.
C19_TaskOrderDedupKeepsFirst ==
    btoResult.done =>
        LET order == btoResult.order
        IN  /\ \A i \in DOMAIN order : order[i] # ""
            /\ \A i, j \in DOMAIN order : i # j => order[i] # order[j]
            /\ {order[i] : i \in DOMAIN order}
                    = {Candidates[i] : i \in DOMAIN Candidates} \ {""}
            /\ \A i, j \in DOMAIN order : i < j => FirstAt(order[i]) < FirstAt(order[j])
            /\ (btoArgs.sidecar = btoArgs.primary /\ btoArgs.sidecar # "" /\ btoArgs.extras = <<>>)
                    => order = <<btoArgs.sidecar>>
            /\ (\A i \in DOMAIN Candidates : Candidates[i] = "") => order = <<>>
C19_Witness ==
    /\ btoResult.done
    /\ btoArgs = [sidecar |-> SidecarName, primary |-> PrimaryName,
                  extras |-> <<PrimaryName, "redis">>]
    /\ btoResult.order = <<SidecarName, PrimaryName, "redis">>

\* the log goroutines started so far
StartedUnits == {i \in DOMAIN unit : unit[i].pc # "none"}

\* C20: the task list for log streaming holds the primary task first, then
\* the additional log tasks, without duplicates, and no stream is started for
\* a blank name, so no two log streams of one capture target the same task
\* (or write the same log artifact).
C20_LogTasksDistinct ==
    tasksToLog # <<>> =>
        /\ tasksToLog[1] = config.TaskName
        /\ \A i, j \in DOMAIN tasksToLog : i # j => tasksToLog[i] # tasksToLog[j]
        /\ \A i \in StartedUnits : tasksToLog[i] # ""
        /\ \A i, j \in StartedUnits :
                i # j => /\ tasksToLog[i] # tasksToLog[j]
                         /\ LogsFile(tasksToLog[i]) # LogsFile(tasksToLog[j])

\* positions in the endpoint list whose fetch has ended with data
DataFetches(endpoint) ==
    {i \in DOMAIN fetched : fetched[i].endpoint = endpoint /\ fetched[i].result = "data"}
\* those of them whose os.WriteFile succeeded
StoredFetches(endpoint) == {i \in DataFetches(endpoint) : fetched[i].written}
Latest(S) == CHOOSE i \in S : \A j \in S : j <= i

ExecExitedNonZero == call.via = "exec" /\ call.exitCode # 0

\* C22: an exec-based GET or POST attempt whose command exits with a non-zero
\* status is a failed attempt: its output is not returned as a successful
\* response, and the endpoint is skipped, not persisted.
C22_NonZeroExitIsFailure ==
    /\ [](ExecExitedNonZero => call.result = "err")
    /\ [][(cpc = "fetch" /\ ExecExitedNonZero) => files' = files]_vars

\* the deadline of a log stream has passed
DeadlinePassed == \E i \in DOMAIN unit : unit[i].ctxDone /\ unit[i].ctxErr = "deadline"
\* every log goroutine has sent its signal to the orchestrator
AllSignalled == \A i \in DOMAIN unit : ~UnitRunning(i)
\* a FetchTaskLogs goroutine that has not returned
SubPending(i, s) == sub[i][s].pc \in {"info", "loop", "writing"}

\* C23: once the deadline of a log stream has passed, its unit returns to the
\* orchestrator after bounded waits, even when the log source never ends and
\* a sub-unit never acknowledges the cancellation; so the join and the capture
\* call terminate when the exec and HTTP calls return.
C23_LogUnitsReturnAndCaptureEnds ==
    /\ DeadlinePassed ~> AllSignalled
    /\ <>(cpc = "done")
C23_Witness ==
    /\ cpc = "done"
    /\ DeadlinePassed
    /\ AllSignalled
    /\ \E i \in DOMAIN sub : \A s \in Streams : SubPending(i, s)

\* the frames a FetchTaskLogs goroutine of unit i has received so far
StdoutBytes(i) == [k \in 1..(MaxFrames - sub[i]["stdout"].left) |-> "out"]
StderrBytes(i) == sub[i]["stderr"].buf

\* streamLogsWithTimeout of unit i returns in this step
StreamReturns(i) ==
    /\ config.impl = "http_first"
    /\ unit[i].pc \in {"select", "wait2"}
    /\ unit'[i].pc \in {"write", "signal"}

\* C24: whenever the task produced standard-error output during the stream,
\* the bytes that become <task>-logs.txt are the standard-output bytes, the
\* separator line "--- STDERR ---" and the standard-error bytes, whether the
\* stream ended naturally or at its deadline.
C24_StderrUnderSeparator ==
    [][\A i \in DOMAIN unit :
        (StreamReturns(i) /\ StderrBytes(i) # <<>>) =>
            /\ unit'[i].pc = "write"
            /\ unit'[i].bytes = StdoutBytes(i) \o <<"sep">> \o StderrBytes(i)]_vars

\* One set of inputs and collaborator responses of a capture call: the source
\* with AllocIP field, no IP, task "web", endpoint /stats fetched and stored,
\* FetchTaskLogs returning an error for stdout and nil without output for
\* stderr, both before the deadline, and an archive that could be created.
SameInputsAndResponses ==
    /\ config = [impl |-> "http_first", AllocIP |-> "", TaskName |-> PrimaryName,
                 SidecarTask |-> SidecarName, Endpoints |-> <<"/stats">>, ExtraLogs |-> <<>>,
                 EnableTrace |-> FALSE, TcpdumpEnabled |-> FALSE, SkipLogLevelReset |-> TRUE]
    /\ archive.made
    /\ fetched = <<[endpoint |-> "/stats", result |-> "data", written |-> TRUE]>>
    /\ sub[1]["stdout"] = [pc |-> "exit", left |-> MaxFrames, res |-> "error", buf |-> <<>>]
    /\ sub[1]["stderr"] = [pc |-> "exit", left |-> MaxFrames, res |-> "nil", buf |-> <<>>]
    /\ ~DeadlinePassed

\* C25: two capture calls with identical inputs and identical collaborator
\* responses yield archives with the same artifact names, however the
\* log-stream units are scheduled.  Stated for the inputs and responses of
\* SameInputsAndResponses, for which one schedule yields the archive of
\* C25_OtherSchedule, without web-logs.txt.
C25_SameNamesUnderAnySchedule ==
    SameInputsAndResponses => DOMAIN archive.files = {"stats.json"}
C25_OtherSchedule ==
    /\ SameInputsAndResponses
    /\ DOMAIN archive.files = {"stats.json"}
    /\ unit[1].err = "error"

\* the exec calls the running ResolveExecStrategy call has made
CallExecs == SubSeq(execLog, rLogStart + 1, Len(execLog))
\* the probe commands one task is sent under the responses in force
TaskProbes(t) ==
    LET p == ProbeHTTPCapability(execResponses, t) IN ProbeExecs(execResponses, t, p)
RECURSIVE ProbesUpTo(_)
ProbesUpTo(k) == IF k = 0 THEN <<>> ELSE ProbesUpTo(k - 1) \o TaskProbes(taskOrder[k])

\* C26: no ExecStrategy is kept from one ResolveExecStrategy call to the
\* next: a second call, made after the tools of the tasks changed, sends the
\* probe commands again, to every task up to the one it selects, and returns
\* the first capable task and its best method under the responses in force
\* during that call, or the error when no task is capable then.
C26_SecondCallProbesAgain ==
    (rCalls > 0 /\ rpc = "returned") =>
        /\ (rResult.status = "ok") <=> SomeCapable
        /\ rResult.status = "ok" =>
            /\ rResult.Task = taskOrder[FirstCapable]
            /\ rResult.Method = BestMethod(taskOrder[FirstCapable])
            /\ CallExecs = ProbesUpTo(FirstCapable)
        /\ rResult.status # "ok" => CallExecs = ProbesUpTo(Len(taskOrder))
        /\ taskOrder # <<>> => CallExecs # <<>>

\* C26 witness: the first call selected curl in the sidecar; the sidecar lost
\* its tools, and the second call probed it in vain and selected bash in the
\* second task.
C26_Witness ==
    /\ rCalls = 1
    /\ rpc = "returned"
    /\ taskOrder = <<SidecarName, PrimaryName>>
    /\ rFirst.status = "ok" /\ rFirst.Task = SidecarName /\ rFirst.Method = MethodCurl
    /\ rResult.status = "ok" /\ rResult.Task = PrimaryName /\ rResult.Method = MethodBashTCP
    /\ ~Capable(SidecarName)
    /\ Len(CallExecs) = 2 * Len(probeCommands)

\* the capture loop of a command that found allocations, in repeat mode
RepeatLoop == opts.repeat > 0 /\ opts.allocs # <<>>

\* C27: with --repeat N > 0 the capture loop stops, whatever --duration is,
\* after exactly N capture cycles, and it sleeps only when another cycle
\* follows.
C27_RepeatRunsNCyclesAndStops ==
    /\ <>(RepeatLoop => lpc = "exit")
    /\ []((RepeatLoop /\ lpc = "exit") => captures = opts.repeat)
    /\ [][(RepeatLoop /\ lpc' = "sleep") => captures' < opts.repeat]_vars

\* the capture loop of a command in duration mode
DurationLoop == DurationMode /\ opts.allocs # <<>>

\* C28: in duration mode the capture loop stops, for every list of
\* allocations: unless the snapshot directory cannot be created again and
\* again, the loop is left eventually, and a loop head reached after the
\* duration has elapsed starts no further cycle.
C28_DurationSessionStops ==
    /\ []<>(lpc = "failed") \/ <>(DurationLoop => lpc = "exit")
    /\ [][(DurationLoop /\ lpc = "top" /\ startTime = "set" /\ elapsed) => lpc' = "exit"]_vars

\* C29: when the capture loop has been left, the last /logging request sent
\* to every allocation that was sent one is level=info.
C29_LastLevelIsInfo ==
    lpc = "exit" => \A a \in DOMAIN lastLevel : lastLevel[a] \in {"none", "info"}

\* C30: with a service name given, every allocation that
\* FindConnectAllocationsByService returns serves that Consul service.
C30_OnlyAllocationsOfTheService ==
    (found.done /\ ~found.err /\ findArgs.serviceName # "") =>
        \A a \in found.allocs : cluster.allocs[a].svc = findArgs.serviceName

\* the probe commands a task is to be sent: the candidates in preference
\* order up to its first working one, all of them when none works
CandidatesSent(t) ==
    LET n == IF Capable(t) THEN Rank(BestMethod(t)) ELSE Len(probeCommands)
    IN [k \in 1..n |-> [task |-> t, cmd |-> probeCommands[k].Command]]
LastProbed == IF SomeCapable THEN FirstCapable ELSE Len(taskOrder)
RECURSIVE SentUpTo(_)
SentUpTo(k) == IF k = 0 THEN <<>> ELSE SentUpTo(k - 1) \o CandidatesSent(taskOrder[k])

\* C32: probing stops at the first success.  When ResolveExecStrategy has
\* returned, the exec calls made are, in order: all five candidates for every
\* task before the first capable one, then the candidates of the first capable
\* task up to its first working one, and nothing after that.
C32_ProbingStopsAtFirstSuccess ==
    rpc = "returned" => execLog = SentUpTo(LastProbed)

\* C32 witness: the first task answered none of its five probes, the second
\* one failed curl and answered wget; bash, which works there too, was never
\* run.
C32_Witness ==
    /\ rpc = "returned"
    /\ Len(taskOrder) = 2
    /\ taskOrder[1] # taskOrder[2]
    /\ ~Capable(taskOrder[1])
    /\ rResult.status = "ok" /\ rResult.Task = taskOrder[2] /\ rResult.Method = MethodWget
    /\ Success(execResponses[taskOrder[2]][MethodBashTCP])
    /\ Len(execLog) = Len(probeCommands) + 2

\* the exec GETs made so far for an endpoint
ExecGETsFor(path) == {k \in 1..Len(execLog) : execLog[k].cmd = ExecGETCommand(path)}
\* a fetchEnvoyEndpoint call begins
GETBegins == call'.op = "GET" /\ call'.result = "pending" /\ epIdx' # epIdx

\* C33: with an IP set every endpoint of a capture call gets its own direct
\* attempts: a fetch begins with no attempt counted, whatever the fetches
\* before it did, and its exec fallback is made only after three direct
\* attempts of its own have failed.
C33_DirectPathRetriedPerEndpoint ==
    /\ [][GETBegins => call'.direct = 0 /\ call'.failed = 0 /\ call'.exec = 0]_vars
    /\ []((call.op = "GET" /\ HasIP /\ call.exec > 0) =>
            call.direct = maxRetries /\ call.failed = maxRetries)

\* C33 witness: the first endpoint fell back to exec, and the second endpoint
\* was then answered by its third direct attempt.
C33_Witness ==
    /\ HasIP
    /\ endpoints = <<"/clusters", "/stats">>
    /\ epIdx = 2
    /\ ExecGETsFor("/clusters") # {}
    /\ call.op = "GET" /\ call.path = "/stats"
    /\ call.direct = maxRetries /\ call.failed = maxRetries - 1
    /\ call.via = "direct" /\ call.result = "data"

\* the sends on logResults so far, and the log goroutines that have sent
Sent == logResults + joined
Gone == Cardinality({i \in DOMAIN unit : unit[i].pc = "gone"})
Capacity == Len(config.ExtraLogs) + 1
Launched == cpc \notin {"start", "launch"}
AfterJoin == cpc \in {"return", "reset", "done"}

C35_CancelClosedAtMostOnce ==
    \A c \in DOMAIN fetch : fetch[c].closes <= 1

\* a call between its os.MkdirTemp and its return
InFlight(c) == pair[c].pc \in {"streaming", "bundle", "return"}
Other(c) == 3 - c

\* C31: two concurrent capture calls for different allocations are
\* independent.  Each working directory belongs to the call that created it
\* until that call removes it; an archive a call has made stays that call's;
\* and a call is ended by a panic only when its own log stream closed its
\* cancel channel twice, never by the other call's stream.
C31_ConcurrentCallsIndependent ==
    \A c \in DOMAIN pair :
        /\ InFlight(c) => pair[c].dir \in DOMAIN disk /\ disk[pair[c].dir] = c
        /\ InFlight(c) /\ InFlight(Other(c)) => pair[c].dir # pair[Other(c)].dir
        /\ pair[c].archived =>
            /\ TarFilePath(pair[c].out, pair[c].id) \in DOMAIN disk
            /\ disk[TarFilePath(pair[c].out, pair[c].id)] = c
        /\ (process = "panicked" /\ InFlight(c)) => fetch[c].closes > 1

\* streamLogsWithTimeout of unit i has handed logsBuf.Bytes() to its caller
HandedBack(i) == config.impl = "http_first" /\ unit[i].pc \in {"write", "signal", "gone"}
\* the stdout goroutine of unit i is in its FetchTaskLogs loop with a frame to
\* come, which it writes to logsBuf with no lock held
StdoutAtWrite(i) == sub[i]["stdout"].pc = "loop" /\ sub[i]["stdout"].left > 0
\* the stderr goroutine of unit i is at one of its two writes to logsBuf
StderrAtWrite(i) == sub[i]["stderr"].pc \in {"sep", "copy"}

\* C36: in streamLogsWithTimeout the accesses to logsBuf exclude each other:
\* the stdout and the stderr goroutine are never at a write to it together,
\* and logsBuf is not written once the function has returned its contents.
C36_LogBufferAccessExclusive ==
    /\ [](\A i \in DOMAIN sub :
            config.impl = "http_first" => ~(StdoutAtWrite(i) /\ StderrAtWrite(i)))
    /\ [][\A i \in DOMAIN unit : HandedBack(i) => unit'[i].logsBuf = unit[i].logsBuf]_vars
\* C36: the two failures on their own
C36_WritersTogether ==
    \E i \in DOMAIN sub :
        config.impl = "http_first" /\ StdoutAtWrite(i) /\ StderrAtWrite(i)
C36_WriteAfterReturn ==
    \E i \in DOMAIN unit :
        /\ HandedBack(i)
        /\ unit[i].bytes # unit[i].logsBuf

\* streamLogsWithTimeout of unit i returns in this step after its deadline
\* fired, and not with the error of a failed stream
EndsByDeadline(i) ==
    /\ StreamReturns(i)
    /\ unit[i].ctxDone /\ unit[i].ctxErr = "deadline"
    /\ unit'[i].err # "error"

\* C37: when the log stream of a task ends by its deadline, not by a stream
\* error, the function returns the bytes collected so far without an error, so
\* that <task>-logs.txt is written, in every interleaving of the deadline and
\* of the FetchTaskLogs goroutines reporting the deadline error.
C37_DeadlineStillWritesArtifact ==
    [][\A i \in DOMAIN unit :
        EndsByDeadline(i) =>
            /\ unit'[i].pc = "write"
            /\ unit'[i].bytes = unit[i].logsBuf]_vars
\* C37: a stream that returned the deadline error, so that no artifact is written
C37_DeadlineErrorReturned ==
    \E i \in DOMAIN unit :
        /\ config.impl = "http_first"
        /\ unit[i].pc \in {"signal", "gone"}
        /\ unit[i].err = "deadline"
        /\ LogsFile(tasksToLog[i]) \notin DOMAIN files

\* C38: ResolveExecStrategy and CaptureSnapshot end with a result or a
\* returned error for every allocation ID, also one shorter than eight
\* characters: neither is aborted by forming the short ID allocID[:8].
C38_ShortIDNeverAborts ==
    /\ rpc = "returned" => rResult.status \in {"ok", "error"}
    /\ cpc = "done" => ret # "panic"
\* C38: ResolveExecStrategy found no capable task for an allocation ID of
\* seven characters and panicked in the slice expression of its error message
C38_ResolvePanics ==
    /\ rpc = "returned"
    /\ allocIDLen < ShortIDLen
    /\ tried = taskOrder
    /\ rResult.status = "panic"
\* C38: CaptureSnapshot panicked in the slice expression of its first log line
C38_CapturePanics ==
    /\ cpc = "done"
    /\ allocIDLen < ShortIDLen
    /\ ret = "panic"

=============================================================================
